---- MODULE Spec2Model ----
(***************************************************************************)
(* TDMS analytics: ingestion of multi-channel recordings into a columnar   *)
(* store, windowed reads with pagination, and downsampling.                *)
(*                                                                         *)
(* Eleven specifications share this module:                                *)
(*   SpecDown  the downsampling functions (LTTB, uniform stride) applied   *)
(*             to every bounded ordered input;                             *)
(*   Spec      the store (datasets, channels, sensor_data) under           *)
(*             ingestion, deletion, window requests and a paging client;   *)
(*   SpecWin   window requests, kept beside their responses, against the   *)
(*             stores that ingestions build;                               *)
(*   SpecIng   ingestion alone, over files with empty and unconvertible    *)
(*             channels;                                                   *)
(*   SpecAsync ingestion with the server's buffer of acknowledged,         *)
(*             not yet written, inserts;                                   *)
(*   SpecProc  the threads of one service process, their storage handles   *)
(*             and locks;                                                  *)
(*   SpecAddr  _process_tdms_channel on every bounded channel the reader   *)
(*             may expose;                                                 *)
(*   SpecChunk bulk_insert_columnar on every bounded row count and chunk   *)
(*             size;                                                       *)
(*   SpecPaging the client loop that feeds next_cursor back, under weak    *)
(*             fairness of its own steps;                                  *)
(*   SpecCleanup the integrity cleanup over the stores that interleaved    *)
(*             ingestions and deletions leave;                             *)
(*   SpecMeta  the listing and metadata endpoints, asked by either user.   *)
(*                                                                         *)
(* Arithmetic the code does in 64-bit floating point (bucket boundaries,   *)
(* linspace, triangle areas) is done here in exact integer arithmetic on   *)
(* scaled quantities; on the bounded integer inputs of this model the two  *)
(* agree (checked for inputs of up to 6 rows).  Outside SpecAsync each     *)
(* storage call is one atomic step of the store, written before the next   *)
(* call; a window request, whose handler never yields between its storage  *)
(* calls, is one step.  Request-side floating-point seconds are carried as *)
(* integer microseconds.                                                   *)
(***************************************************************************)
EXTENDS Integers, Sequences, FiniteSets, TLC

\* ---------------------------------------------------------------- bounds
MaxN == 5
MaxPoints == 5
Values == {0, 1}
Gaps == {0, 1}

VARIABLES
    df,             \* downsampling input: sequence of [time, value] rows
    target_points,  \* requested cardinality
    out,            \* downsampling output rows
    dpc             \* "input" | "lttb" | "uniform" | "window"

downVars == <<df, target_points, out, dpc>>

VARIABLES
    datasets,       \* table datasets: rows [dataset_id, user_id, total_points]
    channels,       \* table channels: rows [channel_id, dataset_id, channel_name, has_time, n_rows]
    sensor_data,    \* table sensor_data
    ing,            \* the ingestion request in progress
    dreq,           \* the delete request in progress
    resp,           \* the last window response
    pg,             \* the paging client
    writes,         \* history: the storage writes of ingestions, in order
    raced,          \* history: datasets whose deletion began during their ingestion
    req,            \* SpecWin: the window request that resp answers
    pending,        \* SpecAsync: rows the server acknowledged and still buffers
    cache,          \* SpecProc: the handle lru_cache holds for get_clickhouse_client
    created,        \* SpecProc: number of ClickHouseClient objects constructed
    lockOwner,      \* SpecProc: per handle, the thread inside "with self._lock"
    inflight,       \* SpecProc: the storage calls in progress
    thr,            \* SpecProc: what each thread of the process is doing
    cleanup,        \* SpecCleanup: the integrity cleanup in progress
    meta,           \* SpecMeta: the last listing or metadata response
    tchan,          \* SpecAddr: a channel as the instrument reader exposes it
    resolved,       \* SpecAddr: what _process_tdms_channel made of it
    bulk            \* SpecChunk: one call of bulk_insert_columnar

storeVars == <<datasets, channels, sensor_data>>
procVars == <<ing, dreq, resp, pg, writes, raced>>
vars == <<df, target_points, out, dpc, datasets, channels, sensor_data,
          ing, dreq, resp, pg, writes, raced, req,
          pending, cache, created, lockOwner, inflight, thr, cleanup,
          meta, tchan, resolved, bulk>>
pureVars == <<tchan, resolved, bulk>>
auxVars == <<pending, cache, created, lockOwner, inflight, thr, cleanup, meta>>

\* ------------------------------------------------------------- utilities
Min(a, b) == IF a <= b THEN a ELSE b
Max(a, b) == IF a >= b THEN a ELSE b
Abs(a) == IF a < 0 THEN 0 - a ELSE a
Last(s) == s[Len(s)]
Range(s) == {s[i] : i \in 1..Len(s)}

\* sorted(list(set(...))) on integers
RECURSIVE SortedSeq(_)
SortedSeq(S) ==
    IF S = {} THEN <<>>
    ELSE LET m == CHOOSE x \in S : \A y \in S : x <= y
         IN <<m>> \o SortedSeq(S \ {m})

\* df.iloc[indices] with 0-based indices
Iloc(rows, indices) == [k \in 1..Len(indices) |-> rows[indices[k] + 1]]

RECURSIVE SumTime(_, _, _)
SumTime(rows, lo, hi) ==
    IF lo >= hi THEN 0 ELSE rows[lo + 1].time + SumTime(rows, lo + 1, hi)

RECURSIVE SumValue(_, _, _)
SumValue(rows, lo, hi) ==
    IF lo >= hi THEN 0 ELSE rows[lo + 1].value + SumValue(rows, lo + 1, hi)

\* ------------------------------------------------------------------ LTTB
\* int(k * bucket_size) with bucket_size = (len(df) - 2) / (target_points - 2)
BucketBound(n, m, k) == (k * (n - 2)) \div (m - 2)

\* The triangle area of (a, j, next-bucket mean), times 2 * cnt where cnt is
\* the size of the next bucket: the same positive factor for every candidate
\* of one bucket, so comparisons of areas are preserved exactly.
Area(rows, a, j, sumx, sumy, cnt) ==
    Abs((rows[a + 1].time * cnt - sumx) * (rows[j + 1].value - rows[a + 1].value)
        - (rows[a + 1].time - rows[j + 1].time) * (sumy - rows[a + 1].value * cnt))

\* mutant: a later row of equal area replaces the earlier one
RECURSIVE ScanBucket_LastOnTie(_, _, _, _, _, _, _, _, _)
ScanBucket_LastOnTie(rows, a, j, range_end, sumx, sumy, cnt, max_area, max_area_point) ==
    IF j >= range_end THEN max_area_point
    ELSE LET area == Area(rows, a, j, sumx, sumy, cnt)
         IN IF area >= max_area
            THEN ScanBucket_LastOnTie(rows, a, j + 1, range_end, sumx, sumy, cnt, area, j)
            ELSE ScanBucket_LastOnTie(rows, a, j + 1, range_end, sumx, sumy, cnt,
                                      max_area, max_area_point)

\* for j in range(range_start, range_end): if area > max_area: ...
RECURSIVE ScanBucket(_, _, _, _, _, _, _, _, _)
ScanBucket(rows, a, j, range_end, sumx, sumy, cnt, max_area, max_area_point) ==
    IF j >= range_end THEN max_area_point
    ELSE LET area == Area(rows, a, j, sumx, sumy, cnt)
         IN IF area > max_area
            THEN ScanBucket(rows, a, j + 1, range_end, sumx, sumy, cnt, area, j)
            ELSE ScanBucket(rows, a, j + 1, range_end, sumx, sumy, cnt,
                            max_area, max_area_point)

\* for i in range(target_points - 2): ... ; returns sampled_indices
RECURSIVE LttbLoop(_, _, _, _, _)
LttbLoop(rows, m, i, a, sampled_indices) ==
    LET n == Len(rows)
        avg_range_start == BucketBound(n, m, i + 1) + 1
        avg_range_end == Min(BucketBound(n, m, i + 2) + 1, n)
        range_start == BucketBound(n, m, i) + 1
        range_end == Min(BucketBound(n, m, i + 1) + 1, n)
    IN IF i >= m - 2 THEN sampled_indices
       ELSE IF avg_range_end <= avg_range_start THEN sampled_indices
       ELSE IF range_end <= range_start THEN sampled_indices
       ELSE LET sumx == SumTime(rows, avg_range_start, avg_range_end)
                sumy == SumValue(rows, avg_range_start, avg_range_end)
                cnt == avg_range_end - avg_range_start
                p == ScanBucket(rows, a, range_start, range_end, sumx, sumy, cnt,
                                -1, range_start)
            IN LttbLoop(rows, m, i + 1, p, Append(sampled_indices, p))

\* mutant: the last point is not appended
LttbIndices_NoLast(rows, m) ==
    SortedSeq(Range(LttbLoop(rows, m, 0, 0, <<0>>)))

LttbIndices(rows, m) ==
    SortedSeq(Range(Append(LttbLoop(rows, m, 0, 0, <<0>>), Len(rows) - 1)))

smart_downsample_production(rows, m) ==
    IF Len(rows) <= m THEN rows
    ELSE IF m < 3
         THEN Iloc(rows, SubSeq(<<0, Len(rows) \div 2, Len(rows) - 1>>, 1, m))
         ELSE Iloc(rows, LttbIndices(rows, m))

\* --------------------------------------------------------------- uniform
\* mutant: one sample too many
Linspace_OneMore(n, m) ==
    [k \in 1..(m + 1) |-> IF k = m + 1 THEN n - 1 ELSE ((k - 1) * (n - 1)) \div m]

\* np.linspace(0, n - 1, m, dtype=int): m samples, step (n-1)/(m-1), the
\* last sample set to the stop value, truncated to integers.
Linspace(n, m) ==
    [k \in 1..m |-> IF m = 1 THEN 0
                    ELSE IF k = m THEN n - 1
                    ELSE ((k - 1) * (n - 1)) \div (m - 1)]

UniformDownsample(rows, m) == Iloc(rows, Linspace(Len(rows), m))

\* mutant: downsamples whenever there are rows
ApplyDownsampling_AnyRows(rows, m, method) ==
    IF Len(rows) > 0
    THEN IF method = "lttb" THEN smart_downsample_production(rows, m)
         ELSE UniformDownsample(rows, m)
    ELSE rows

\* "Apply downsampling if needed" of the window endpoints
ApplyDownsampling(rows, m, method) ==
    IF Len(rows) > m
    THEN IF method = "lttb" THEN smart_downsample_production(rows, m)
         ELSE UniformDownsample(rows, m)
    ELSE rows

\* =================================================================== store
NoValue == "None"      \* Python None, where a string is expected
NoNum == 0 - 1          \* Python None, where a number is expected
NoId == <<>>            \* no channel id
Users == {"A", "B"}
DatasetIds == {"d1"}
MaxChannels == 2        \* raw channels per ingested file
MaxRows == 3            \* samples per raw channel
ChunkSize == 2          \* app_settings.chunk_size, scaled down
MinLimit == 2           \* app_settings.limit_min, scaled down
MaxLimit == 3           \* app_settings.limit_max, scaled down
MaxPages == 4           \* pages the paging client fetches at most
SamplesPerSec == 2      \* sampling rate of the time tracks ingested
UsPerSec == 1000000     \* DateTime64(6): microseconds per second

\* ---- rows
DatasetRow(d, u, total) == [dataset_id |-> d, user_id |-> u, total_points |-> total]

ChannelRow(cd, d) ==
    [channel_id |-> cd.channel_id, dataset_id |-> d,
     channel_name |-> cd.channel_name, has_time |-> cd.has_time,
     n_rows |-> cd.n_rows]

\* ---- the instrument file: raw channels as the reader exposes them
\* float64: whether values.astype(np.float64) succeeds
RawChannels ==
    {[channel_name |-> "t", has_time |-> TRUE, n |-> MaxRows, float64 |-> TRUE],
     [channel_name |-> "i", has_time |-> FALSE, n |-> MaxRows, float64 |-> TRUE],
     [channel_name |-> "e", has_time |-> FALSE, n |-> 0, float64 |-> TRUE]}

\* a channel of strings: astype raises ValueError
RawUnconvertible ==
    [channel_name |-> "x", has_time |-> FALSE, n |-> MaxRows, float64 |-> FALSE]

RECURSIVE FilesOfLen(_)
FilesOfLen(k) ==
    IF k = 0 THEN {<<>>}
    ELSE {Append(f, c) : f \in FilesOfLen(k - 1), c \in RawChannels}

Files == UNION {FilesOfLen(k) : k \in 1..MaxChannels}

\* the files of SpecIng: also those with an unconvertible channel
RECURSIVE AllFilesOfLen(_)
AllFilesOfLen(k) ==
    IF k = 0 THEN {<<>>}
    ELSE {Append(f, c) : f \in AllFilesOfLen(k - 1),
                         c \in RawChannels \cup {RawUnconvertible}}

AllFiles == UNION {AllFilesOfLen(k) : k \in 1..MaxChannels}

\* _process_tdms_channel returns None: "Skipping empty channel",
\* "Skipping channel with no data", "Could not convert data to float64"
ChannelSkipped(c) == c.n = 0 \/ ~c.float64

\* mutant: no channel is skipped
ProcessChannels_KeepAll(file, d, i) ==
    [j \in 1..Len(file) |->
        [channel_id |-> <<d, j>>, channel_name |-> file[j].channel_name,
         has_time |-> file[j].has_time, n_rows |-> file[j].n]]

\* time_track() of sample k, as datetime64 converted to int64 microseconds
TimeTrackUs(k) == k * (UsPerSec \div SamplesPerSec)

\* _process_tdms_channel over the file's channels: empty channels are
\* skipped, each kept channel gets a fresh channel_id (uuid4)
RECURSIVE ProcessChannels(_, _, _)
ProcessChannels(file, d, i) ==
    IF i > Len(file) THEN <<>>
    ELSE LET rest == ProcessChannels(file, d, i + 1)
         IN IF ChannelSkipped(file[i]) THEN rest
            ELSE <<[channel_id |-> <<d, i>>,
                    channel_name |-> file[i].channel_name,
                    has_time |-> file[i].has_time,
                    n_rows |-> file[i].n]>> \o rest

\* the channels the warnings of _process_tdms_channel name, in file order
SkippedNames(file) ==
    LET RECURSIVE Names(_)
        Names(i) == IF i > Len(file) THEN <<>>
                    ELSE (IF ChannelSkipped(file[i])
                          THEN <<file[i].channel_name>> ELSE <<>>) \o Names(i + 1)
    IN Names(1)

RECURSIVE TotalPoints(_)
TotalPoints(cds) ==
    IF cds = <<>> THEN 0 ELSE Head(cds).n_rows + TotalPoints(Tail(cds))

\* mutant: the sample number is written for every channel
SensorRow_IndexAlways(cd, d, k) ==
    [dataset_id |-> d, channel_id |-> cd.channel_id,
     timestamp |-> IF cd.has_time THEN TimeTrackUs(k) ELSE 0,
     sample_index |-> k,
     value |-> k,
     is_time_series |-> IF cd.has_time THEN 1 ELSE 0]

\* _insert_sensor_data: the columns of sample k of a channel; an index row
\* is sent without a timestamp column and takes the table's default
SensorRow(cd, d, k) ==
    [dataset_id |-> d, channel_id |-> cd.channel_id,
     timestamp |-> IF cd.has_time THEN TimeTrackUs(k) ELSE 0,
     sample_index |-> IF cd.has_time THEN 0 ELSE k,
     value |-> k,
     is_time_series |-> IF cd.has_time THEN 1 ELSE 0]

\* bulk_insert_columnar: table.slice(start, end - start)
ChunkRows(cd, d, start) ==
    {SensorRow(cd, d, k) : k \in start..(Min(start + ChunkSize, cd.n_rows) - 1)}

\* ---- queries
\* the ORDER BY column of get_channel_data: timestamp or sample_index
SortKey(r, has_time) == IF has_time THEN r.timestamp ELSE r.sample_index

\* ORDER BY: the rows of S as a sequence ascending by the sort key
RECURSIVE OrderBy(_, _)
OrderBy(S, has_time) ==
    IF S = {} THEN <<>>
    ELSE LET m == CHOOSE r \in S : \A q \in S : SortKey(r, has_time) <= SortKey(q, has_time)
         IN <<m>> \o OrderBy(S \ {m}, has_time)

LimitRows(s, limit) == SubSeq(s, 1, Min(limit, Len(s)))

ChannelExists(cid) == \E c \in channels : c.channel_id = cid
ChannelOf(cid) == CHOOSE c \in channels : c.channel_id = cid
DatasetExists(d) == \E r \in datasets : r.dataset_id = d
DatasetOf(d) == CHOOSE r \in datasets : r.dataset_id = d

\* int(x) of a non-negative float carried in microunits
IntOf(x) == x \div UsPerSec

\* toUnixTimestamp(timestamp): whole seconds of a DateTime64(6)
ToUnixTimestamp(ts) == ts \div UsPerSec

\* SensorDataRepository.get_channel_data; start, end in microunits or NoNum.
\* Returns the DataFrame as a sequence of [time, value].
GetChannelDataRows(cid, start_timestamp, end_timestamp, limit) ==
    LET has_time == ChannelOf(cid).has_time
        sel == IF has_time
               THEN {r \in sensor_data :
                        /\ r.channel_id = cid /\ r.is_time_series = 1
                        /\ (start_timestamp # NoNum => r.timestamp >= start_timestamp)
                        /\ (end_timestamp # NoNum => r.timestamp <= end_timestamp)}
               ELSE {r \in sensor_data :
                        /\ r.channel_id = cid /\ r.is_time_series = 0
                        /\ (start_timestamp # NoNum =>
                                r.sample_index >= IntOf(start_timestamp))
                        /\ (end_timestamp # NoNum =>
                                r.sample_index <= IntOf(end_timestamp))}
        ordered == OrderBy(sel, has_time)
        page == LimitRows(ordered, limit)
    IN [k \in 1..Len(page) |->
            [time |-> IF has_time THEN ToUnixTimestamp(page[k].timestamp)
                      ELSE page[k].sample_index,
             value |-> page[k].value]]

\* df.iloc[::step].head(points)
RECURSIVE Stride(_, _, _)
Stride(rows, step, k) ==
    IF k > Len(rows) THEN <<>> ELSE <<rows[k]>> \o Stride(rows, step, k + step)

\* mutant: the strided rows are not cut at points
GetDownsampledDataClickhouse_NoHead(cid, start_timestamp, end_timestamp, points) ==
    LET rows == GetChannelDataRows(cid, start_timestamp, end_timestamp, points * 2)
    IN IF Len(rows) > points
       THEN Stride(rows, Max(1, Len(rows) \div points), 1)
       ELSE rows

\* SensorDataRepository.get_downsampled_data_clickhouse
GetDownsampledDataClickhouse(cid, start_timestamp, end_timestamp, points) ==
    LET rows == GetChannelDataRows(cid, start_timestamp, end_timestamp, points * 2)
    IN IF Len(rows) > points
       THEN LimitRows(Stride(rows, Max(1, Len(rows) \div points), 1), points)
       ELSE rows

\* SensorDataRepository.get_time_range: has_time and min_timestamp (microunits)
GetTimeRange(cid) ==
    LET has_time == ChannelOf(cid).has_time
        rows == {r \in sensor_data :
                    r.channel_id = cid
                    /\ r.is_time_series = (IF has_time THEN 1 ELSE 0)}
    IN [has_time |-> has_time,
        min_timestamp |->
            IF has_time /\ rows # {}
            THEN (CHOOSE r \in rows : \A q \in rows : r.timestamp <= q.timestamp).timestamp
            ELSE NoNum]

\* mutant: the owner is not compared
DatasetGetById_NoOwnerCheck(d, user_id) ==
    IF ~DatasetExists(d) THEN "DatasetNotFoundError" ELSE NoValue

\* DatasetRepository.get_by_id(dataset_id, user_id)
DatasetGetById(d, user_id) ==
    IF ~DatasetExists(d) THEN "DatasetNotFoundError"
    ELSE IF user_id # "" /\ DatasetOf(d).user_id # user_id THEN "ForbiddenAccessError"
    ELSE NoValue

\* verify_channel_ownership: ChannelRepository.get_by_id, then
\* DatasetRepository.get_by_id(channel.dataset_id, user_id=user_id)
VerifyChannelOwnership(cid, user_id) ==
    IF ~ChannelExists(cid)
    THEN [raised |-> "ChannelNotFoundError", queries |-> <<"channels">>]
    ELSE [raised |-> DatasetGetById(ChannelOf(cid).dataset_id, user_id),
          queries |-> <<"channels", "datasets">>]

\* the except clauses of the window endpoints
WindowStatus(raised) ==
    IF raised = "ForbiddenAccessError" THEN 403
    ELSE IF raised = "ChannelNotFoundError" THEN 404
    ELSE 500

\* ---- window endpoints
DefaultLimit == 3       \* app_settings.default_limit, scaled down
Methods == {"lttb", "uniform", "clickhouse"}
PointsChoices == {2, 3}     \* requested points, scaled down

\* a float position as a request parameter (microunits)
AsFloat(x) == x * UsPerSec

Times(rows) == [k \in 1..Len(rows) |-> rows[k].time]
ValuesOf(rows) == [k \in 1..Len(rows) |-> rows[k].value]

SeqMin(s) == CHOOSE x \in Range(s) : \A y \in Range(s) : x <= y

\* utils/arrow_response.py ARROW_MIME
ARROW_MIME == "application/vnd.apache.arrow.stream"
JSON_MIME == "application/json"

\* the Accept header as the media types it lists; client_wants_arrow:
\* "ARROW_MIME in accept.lower()"
AcceptJson == <<JSON_MIME>>
AcceptArrow == <<ARROW_MIME>>
AcceptChoices == {AcceptJson, AcceptArrow}
client_wants_arrow(accept) == ARROW_MIME \in Range(accept)

ErrorResponse(endpoint, cid, user_id, raised, queries) ==
    [endpoint |-> endpoint, channel_id |-> cid, user_id |-> user_id,
     status |-> IF endpoint = "None" THEN 0 ELSE WindowStatus(raised),
     raised |-> raised,
     media_type |-> IF endpoint = "None" THEN NoValue ELSE JSON_MIME,
     x |-> <<>>, y |-> <<>>, has_time |-> FALSE, method |-> NoValue,
     original_points |-> 0, has_more |-> FALSE, next_cursor |-> NoNum,
     queries |-> queries]

NoResp == ErrorResponse("None", NoId, NoValue, NoValue, <<>>)

\* mutant: the relative offset bounds an index-addressed channel too
WindowBound_OffsetForIndex(tr, iso, sec) ==
    IF iso # NoNum THEN AsFloat(iso)
    ELSE IF sec # NoNum
         THEN (IF tr.min_timestamp # NoNum THEN tr.min_timestamp ELSE 0) + sec
         ELSE NoNum

\* the "Calculate timestamps" block of get_window: one bound of the window.
\* iso is the second an ISO date denotes (or the index an integer string
\* denotes), sec a relative offset in microunits; either may be NoNum.
WindowBound(tr, iso, sec) ==
    IF tr.has_time
    THEN IF iso # NoNum THEN AsFloat(iso)
         ELSE IF sec # NoNum /\ tr.min_timestamp # NoNum
              THEN tr.min_timestamp + sec
              ELSE NoNum
    ELSE IF iso # NoNum THEN AsFloat(iso) ELSE NoNum

\* mutant: the flag rebases index-addressed channels too
RebaseTimes_AnyChannel(rows, relative, has_time) ==
    IF relative /\ Len(rows) > 0
    THEN [k \in 1..Len(rows) |-> rows[k].time - SeqMin(Times(rows))]
    ELSE Times(rows)

\* "Apply relative time if requested": df["time"] - df["time"].min()
RebaseTimes(rows, relative, has_time) ==
    IF relative /\ has_time /\ Len(rows) > 0
    THEN [k \in 1..Len(rows) |-> rows[k].time - SeqMin(Times(rows))]
    ELSE Times(rows)

\* dataframe_to_arrow_streaming_response: the (time, value) columns as a
\* stream under ARROW_MIME; none of the JSON metadata is carried
ArrowResponse(endpoint, cid, user_id, x, y, queries) ==
    [endpoint |-> endpoint, channel_id |-> cid, user_id |-> user_id,
     status |-> 200, raised |-> NoValue, media_type |-> ARROW_MIME,
     x |-> x, y |-> y, has_time |-> FALSE, method |-> NoValue,
     original_points |-> 0, has_more |-> FALSE, next_cursor |-> NoNum,
     queries |-> queries]

\* mutant: an empty frame is answered as a failure
EmptyWindowResponse_Error(endpoint, cid, user_id, has_time, method, queries) ==
    ErrorResponse(endpoint, cid, user_id, "IndexError", queries)

\* "if len(df) == 0: return {...}": empty arrays, zero counts, no cursor;
\* always the JSON shape
EmptyWindowResponse(endpoint, cid, user_id, has_time, method, queries) ==
    [endpoint |-> endpoint, channel_id |-> cid, user_id |-> user_id,
     status |-> 200, raised |-> NoValue, media_type |-> JSON_MIME,
     x |-> <<>>, y |-> <<>>, has_time |-> has_time, method |-> method,
     original_points |-> 0, has_more |-> FALSE, next_cursor |-> NoNum,
     queries |-> queries]

\* routes/data_windows.py get_window
GetWindow(cid, user_id, start, end, start_sec, end_sec, relative, points, method, accept) ==
    LET own == VerifyChannelOwnership(cid, user_id)
    IN IF own.raised # NoValue
       THEN ErrorResponse("window", cid, user_id, own.raised, own.queries)
       ELSE
       LET tr == GetTimeRange(cid)
           start_timestamp == WindowBound(tr, start, start_sec)
           end_timestamp == WindowBound(tr, end, end_sec)
           fetched == IF method = "clickhouse"
                      THEN GetDownsampledDataClickhouse(cid, start_timestamp,
                                                        end_timestamp, points)
                      ELSE GetChannelDataRows(cid, start_timestamp, end_timestamp,
                                              DefaultLimit)
           rows == IF method = "clickhouse" THEN fetched
                   ELSE ApplyDownsampling(fetched, points, method)
           original_points == IF method = "clickhouse" THEN points ELSE Len(fetched)
           q == own.queries \o <<"channels", "sensor_data">>
                            \o <<"channels", "sensor_data">>
                            \o (IF Len(rows) > 0 THEN <<"channels">> ELSE <<>>)
           x == RebaseTimes(rows, relative, tr.has_time)
       IN IF Len(rows) = 0
          THEN EmptyWindowResponse("window", cid, user_id, tr.has_time, method, q)
          ELSE IF client_wants_arrow(accept)
          THEN ArrowResponse("window", cid, user_id, x, ValuesOf(rows), q)
          ELSE [endpoint |-> "window", channel_id |-> cid, user_id |-> user_id,
                status |-> 200, raised |-> NoValue, media_type |-> JSON_MIME,
                x |-> x, y |-> ValuesOf(rows),
                has_time |-> tr.has_time, method |-> method,
                original_points |-> original_points,
                has_more |-> FALSE, next_cursor |-> NoNum,
                queries |-> q]

\* routes/data_windows.py get_window_filtered
GetWindowFiltered(cid, user_id, start_timestamp, end_timestamp, cursor, limit, points, method, accept) ==
    LET own == VerifyChannelOwnership(cid, user_id)
    IN IF own.raised # NoValue
       THEN ErrorResponse("get_window_filtered", cid, user_id, own.raised, own.queries)
       ELSE
       LET tr == GetTimeRange(cid)
           start == IF cursor # NoNum THEN cursor ELSE start_timestamp
           fetched == IF method = "clickhouse"
                      THEN GetDownsampledDataClickhouse(cid, start, end_timestamp,
                                                        points)
                      ELSE GetChannelDataRows(cid, start, end_timestamp, limit)
           rows == IF method = "clickhouse" THEN fetched
                   ELSE ApplyDownsampling(fetched, points, method)
           original_points == IF method = "clickhouse" THEN points ELSE Len(fetched)
           has_more == IF method = "clickhouse" THEN FALSE ELSE Len(fetched) >= limit
           next_cursor == IF method # "clickhouse" /\ Len(rows) > 0 /\ has_more
                          THEN Last(rows).time ELSE NoNum
           q == own.queries \o <<"channels", "sensor_data">>
                            \o <<"channels", "sensor_data">> \o <<"channels">>
       IN IF Len(rows) = 0
          THEN EmptyWindowResponse("get_window_filtered", cid, user_id,
                                   tr.has_time, method, q)
          ELSE IF client_wants_arrow(accept)
          THEN ArrowResponse("get_window_filtered", cid, user_id,
                             Times(rows), ValuesOf(rows), q)
          ELSE [endpoint |-> "get_window_filtered", channel_id |-> cid,
                user_id |-> user_id, status |-> 200, raised |-> NoValue,
                media_type |-> JSON_MIME,
                x |-> Times(rows), y |-> ValuesOf(rows),
                has_time |-> tr.has_time, method |-> method,
                original_points |-> original_points,
                has_more |-> has_more,
                next_cursor |-> next_cursor,
                queries |-> q]

\* Responses do not feed back into the store, so a response (or a paging
\* run) is observed before the next ingestion or deletion step is taken.
ClientIdle == resp.endpoint = "None" /\ pg.pc = "idle"

\* ---- ingestion: routes/ingestion.py ingest_tdms_file -> tdms_to_clickhouse
NoErrorRec ==
    [type |-> "None", text |-> "", cause |-> "", channel |-> NoValue, offset |-> NoNum]

IdleIng ==
    [pc |-> "idle", dataset_id |-> NoValue, user_id |-> NoValue,
     channels_data |-> <<>>, skipped |-> <<>>, plan |-> <<>>, k |-> 0,
     error |-> NoErrorRec]

IngestBusy == ing.pc = "writing"

\* uuid4: an id no earlier ingestion has used
FreshDatasetId(d) == \A i \in 1..Len(writes) : writes[i].dataset_id # d

\* bulk_insert_columnar: "for start in range(0, total_rows, chunk_size)",
\* one write call per chunk; no call when total_rows = 0
ChunkStarts(total_rows) ==
    [j \in 1..((total_rows + ChunkSize - 1) \div ChunkSize) |-> (j - 1) * ChunkSize]

ChunkSteps(ci, n_rows) ==
    LET starts == ChunkStarts(n_rows)
    IN [j \in 1..Len(starts) |-> [table |-> "sensor_data", ci |-> ci, off |-> starts[j]]]

\* "for channel_data in channels_data": channel_repo.create, then
\* _insert_sensor_data when n_rows > 0
RECURSIVE ChannelSteps(_, _)
ChannelSteps(cds, ci) ==
    IF ci > Len(cds) THEN <<>>
    ELSE <<[table |-> "channels", ci |-> ci, off |-> 0]>>
         \o (IF cds[ci].n_rows > 0 THEN ChunkSteps(ci, cds[ci].n_rows) ELSE <<>>)
         \o ChannelSteps(cds, ci + 1)

\* mutant: the dataset row is written when the channels are done
WritePlan_DatasetLast(cds) ==
    ChannelSteps(cds, 1) \o <<[table |-> "datasets", ci |-> 0, off |-> 0]>>

\* tdms_to_clickhouse: the storage writes it issues, in program order
WritePlan(cds) ==
    <<[table |-> "datasets", ci |-> 0, off |-> 0]>> \o ChannelSteps(cds, 1)

CurrentStep == ing.plan[ing.k]
CurrentChannel == ing.channels_data[CurrentStep.ci]

WriteRecord(st, ok) ==
    LET step == st.plan[st.k]
    IN [table |-> step.table, dataset_id |-> st.dataset_id,
        channel_id |-> IF step.ci = 0 THEN NoId
                       ELSE st.channels_data[step.ci].channel_id,
        off |-> step.off, ok |-> ok]

\* the write returned: on to the next statement, or "return channels_meta"
Advance(st) ==
    IF st.k < Len(st.plan) THEN [st EXCEPT !.k = st.k + 1]
    ELSE [st EXCEPT !.pc = "done"]

\* the request arrives: the file is read and its channels processed
IngestStart(d, u, file) ==
    /\ ClientIdle
    /\ ~IngestBusy
    /\ FreshDatasetId(d)
    /\ LET cds == ProcessChannels(file, d, 1)
       IN ing' = IF cds = <<>>
                 THEN [IdleIng EXCEPT !.pc = "failed", !.dataset_id = d, !.user_id = u,
                          !.skipped = SkippedNames(file),
                          !.error = [NoErrorRec EXCEPT
                                        !.type = "InvalidDataError",
                                        !.text = "No valid channels found in TDMS file"]]
                 ELSE [IdleIng EXCEPT !.pc = "writing", !.dataset_id = d, !.user_id = u,
                          !.skipped = SkippedNames(file),
                          !.channels_data = cds, !.plan = WritePlan(cds), !.k = 1]
    /\ UNCHANGED <<datasets, channels, sensor_data, dreq, resp, pg, writes, raced>>

\* dataset_repo.create(dataset_id, dataset_create)
IngestCreateDataset ==
    /\ ClientIdle
    /\ IngestBusy /\ CurrentStep.table = "datasets"
    /\ datasets' = datasets \cup
          {DatasetRow(ing.dataset_id, ing.user_id, TotalPoints(ing.channels_data))}
    /\ writes' = Append(writes, WriteRecord(ing, TRUE))
    /\ ing' = Advance(ing)
    /\ UNCHANGED <<channels, sensor_data, dreq, resp, pg, raced>>

\* channel_repo.create(channel_data["channel_id"], channel_create)
IngestCreateChannel ==
    /\ ClientIdle
    /\ IngestBusy /\ CurrentStep.table = "channels"
    /\ channels' = channels \cup {ChannelRow(CurrentChannel, ing.dataset_id)}
    /\ writes' = Append(writes, WriteRecord(ing, TRUE))
    /\ ing' = Advance(ing)
    /\ UNCHANGED <<datasets, sensor_data, dreq, resp, pg, raced>>

\* one iteration of bulk_insert_columnar's loop: insert_arrow_table(chunk)
IngestChunk ==
    /\ ClientIdle
    /\ IngestBusy /\ CurrentStep.table = "sensor_data"
    /\ sensor_data' = sensor_data \cup
          ChunkRows(CurrentChannel, ing.dataset_id, CurrentStep.off)
    /\ writes' = Append(writes, WriteRecord(ing, TRUE))
    /\ ing' = Advance(ing)
    /\ UNCHANGED <<datasets, channels, dreq, resp, pg, raced>>

\* mutant: the failure is swallowed and the loop goes on
IngestFailure_Continue(st) == Advance(st)

\* the exception handlers of _insert_sensor_data and tdms_to_clickhouse:
\* IngestionError(f"Failed to insert sensor data: {str(e)}") for a chunk,
\* IngestionError(f"Failed to process TDMS file: {str(e)}") otherwise; the
\* only thing interpolated is the storage exception e
IngestFailure(st) ==
    [st EXCEPT !.pc = "failed",
               !.error = [type |-> "IngestionError",
                          text |-> IF st.plan[st.k].table = "sensor_data"
                                   THEN "Failed to insert sensor data"
                                   ELSE "Failed to process TDMS file",
                          cause |-> "storage error",
                          channel |-> NoValue, offset |-> NoNum]]

\* a storage write of the ingestion raises
IngestWriteFails ==
    /\ ClientIdle
    /\ IngestBusy
    /\ writes' = Append(writes, WriteRecord(ing, FALSE))
    /\ ing' = IngestFailure(ing)
    /\ UNCHANGED <<datasets, channels, sensor_data, dreq, resp, pg, raced>>

\* ---- deletion: routes/datasets.py delete_dataset -> DatasetRepository.delete
IdleDel ==
    [pc |-> "idle", dataset_id |-> NoValue, user_id |-> NoValue, step |-> 0,
     status |-> 0]

DeleteBusy == dreq.pc = "deleting"

\* mutant: the dataset row goes first
DeleteOrder_DatasetFirst == <<"datasets", "channels", "sensor_data">>

\* DatasetRepository.delete: the tables it clears, in program order
DeleteOrder == <<"sensor_data", "channels", "datasets">>

\* mutant: every exception is answered as a database error
DeleteStatus_All500(raised) == 500

\* the except clauses of delete_dataset
DeleteStatus(raised) ==
    IF raised = "ForbiddenAccessError" THEN 403
    ELSE IF raised = "DatasetNotFoundError" THEN 404
    ELSE 500

\* the request arrives; "if user_id: self.get_by_id(dataset_id, user_id)"
DeleteStart(d, u) ==
    /\ ClientIdle
    /\ ~DeleteBusy
    /\ LET raised == IF u # "" THEN DatasetGetById(d, u) ELSE NoValue
       IN /\ dreq' = [pc |-> IF raised = NoValue THEN "deleting" ELSE "failed",
                      dataset_id |-> d, user_id |-> u,
                      step |-> IF raised = NoValue THEN 1 ELSE 0,
                      status |-> IF raised = NoValue THEN 0 ELSE DeleteStatus(raised)]
          /\ raced' = IF raised = NoValue /\ IngestBusy /\ ing.dataset_id = d
                      THEN raced \cup {d} ELSE raced
    /\ UNCHANGED <<datasets, channels, sensor_data, ing, resp, pg, writes>>

\* the statement after the current one, or the 200 response
DeleteAdvance(st) ==
    IF st.step < Len(DeleteOrder) THEN [st EXCEPT !.step = st.step + 1]
    ELSE [st EXCEPT !.pc = "done", !.status = 200]

\* ALTER TABLE sensor_data DROP PARTITION dataset_id
DeleteSensorData ==
    /\ ClientIdle
    /\ DeleteBusy /\ DeleteOrder[dreq.step] = "sensor_data"
    /\ sensor_data' = {r \in sensor_data : r.dataset_id # dreq.dataset_id}
    /\ dreq' = DeleteAdvance(dreq)
    /\ UNCHANGED <<datasets, channels, ing, resp, pg, writes, raced>>

\* ALTER TABLE channels DELETE WHERE dataset_id = ...
DeleteChannels ==
    /\ ClientIdle
    /\ DeleteBusy /\ DeleteOrder[dreq.step] = "channels"
    /\ channels' = {c \in channels : c.dataset_id # dreq.dataset_id}
    /\ dreq' = DeleteAdvance(dreq)
    /\ UNCHANGED <<datasets, sensor_data, ing, resp, pg, writes, raced>>

\* ALTER TABLE datasets DELETE WHERE dataset_id = ...
DeleteDataset ==
    /\ ClientIdle
    /\ DeleteBusy /\ DeleteOrder[dreq.step] = "datasets"
    /\ datasets' = {r \in datasets : r.dataset_id # dreq.dataset_id}
    /\ dreq' = DeleteAdvance(dreq)
    /\ UNCHANGED <<channels, sensor_data, ing, resp, pg, writes, raced>>

\* a storage call of the deletion raises: "except Exception" -> 500
DeleteStepFails ==
    /\ ClientIdle
    /\ DeleteBusy
    /\ dreq' = [dreq EXCEPT !.pc = "failed", !.status = DeleteStatus("Exception")]
    /\ UNCHANGED <<datasets, channels, sensor_data, ing, resp, pg, writes, raced>>

\* ---- integrity cleanup: routes/monitoring.py cleanup_all and
\* tasks/cleanup_orphans.py run_automatic_cleanup
IdleCleanup == [pc |-> "idle", dry_run |-> TRUE, step |-> 0]

CleanupBusy == cleanup.pc = "running"
CleanupIdle == cleanup.pc = "idle"

\* the three deletions, in the order both entry points issue them
CleanupOrder == <<"orphan_points", "empty_channels", "orphan_channels">>

\* the cleanup-all request (dry_run as the caller sends it) or the scheduled
\* job (which always deletes)
CleanupStart(dry_run) ==
    /\ cleanup.pc = "idle"
    /\ cleanup' = [pc |-> "running", dry_run |-> dry_run, step |-> 1]
    /\ UNCHANGED <<storeVars, procVars>>

\* the statement after the current one, or the end of the cleanup
CleanupAdvance(st) ==
    IF st.step < Len(CleanupOrder) THEN [st EXCEPT !.step = st.step + 1]
    ELSE [st EXCEPT !.pc = "done"]

\* ALTER TABLE sensor_data DELETE WHERE channel_id IN (rows LEFT JOIN
\* channels WHERE c.channel_id IS NULL); a dry run only counts
CleanupOrphanPoints ==
    /\ CleanupBusy /\ CleanupOrder[cleanup.step] = "orphan_points"
    /\ sensor_data' = IF cleanup.dry_run THEN sensor_data
                      ELSE {r \in sensor_data :
                              \E c \in channels : c.channel_id = r.channel_id}
    /\ cleanup' = CleanupAdvance(cleanup)
    /\ UNCHANGED <<datasets, channels, procVars>>

\* ALTER TABLE channels DELETE WHERE channel_id IN (channels LEFT JOIN the
\* per-channel row counts WHERE the count IS NULL OR 0)
CleanupEmptyChannels ==
    /\ CleanupBusy /\ CleanupOrder[cleanup.step] = "empty_channels"
    /\ channels' = IF cleanup.dry_run THEN channels
                   ELSE {c \in channels :
                           \E r \in sensor_data : r.channel_id = c.channel_id}
    /\ cleanup' = CleanupAdvance(cleanup)
    /\ UNCHANGED <<datasets, sensor_data, procVars>>

\* ALTER TABLE channels DELETE WHERE channel_id IN (channels LEFT JOIN
\* datasets WHERE d.dataset_id IS NULL)
CleanupOrphanChannels ==
    /\ CleanupBusy /\ CleanupOrder[cleanup.step] = "orphan_channels"
    /\ channels' = IF cleanup.dry_run THEN channels
                   ELSE {c \in channels :
                           \E d \in datasets : d.dataset_id = c.dataset_id}
    /\ cleanup' = CleanupAdvance(cleanup)
    /\ UNCHANGED <<datasets, sensor_data, procVars>>

\* the caller (or the scheduler's log) has the result
CleanupRead ==
    /\ cleanup.pc = "done"
    /\ cleanup' = IdleCleanup
    /\ UNCHANGED <<storeVars, procVars>>

\* ---- window requests and the paging client
IdlePg ==
    [pc |-> "idle", channel_id |-> NoId, user_id |-> NoValue, limit |-> 0,
     cursor |-> NoNum, pages |-> <<>>]

ChannelIds == {<<d, i>> : d \in DatasetIds, i \in 1..MaxChannels}
OptSecond == {NoNum, 1}
OptOffset == {NoNum, UsPerSec \div SamplesPerSec}

\* the combinations of window bounds a request is made with
BoundChoices ==
    {<<s, e, NoNum, NoNum>> : s \in OptSecond, e \in OptSecond}
    \cup {<<NoNum, NoNum, ss, es>> : ss \in OptOffset, es \in OptOffset}

DoGetWindow ==
    /\ ClientIdle
    /\ \E cid \in ChannelIds, u \in Users, b \in BoundChoices, relative \in BOOLEAN,
          points \in PointsChoices, method \in Methods :
          resp' = GetWindow(cid, u, b[1], b[2], b[3], b[4], relative, points, method,
                           AcceptJson)
    /\ UNCHANGED <<datasets, channels, sensor_data, ing, dreq, pg, writes, raced>>

DoGetWindowFiltered ==
    /\ ClientIdle
    /\ \E cid \in ChannelIds, u \in Users, s \in OptSecond, e \in OptSecond,
          limit \in MinLimit..MaxLimit, points \in PointsChoices, method \in Methods :
          resp' = GetWindowFiltered(cid, u,
                      IF s = NoNum THEN NoNum ELSE AsFloat(s),
                      IF e = NoNum THEN NoNum ELSE AsFloat(e),
                      NoNum, limit, points, method, AcceptJson)
    /\ UNCHANGED <<datasets, channels, sensor_data, ing, dreq, pg, writes, raced>>

\* the channel's full ordered row sequence, as (position, value) pairs
RowPairs(x, y) == [k \in 1..Len(x) |-> <<x[k], y[k]>>]

ChannelSequence(cid) ==
    IF ChannelExists(cid)
    THEN LET rows == GetChannelDataRows(cid, NoNum, NoNum, Cardinality(sensor_data))
         IN RowPairs(Times(rows), ValuesOf(rows))
    ELSE <<>>

\* the client starts paging through a channel with page size limit and no
\* downsampling (points = limit)
PageStart(cid, u, limit) ==
    /\ ClientIdle
    /\ ChannelExists(cid)
    /\ pg' = [IdlePg EXCEPT !.pc = "paging", !.channel_id = cid, !.user_id = u,
                            !.limit = limit]
    /\ UNCHANGED <<datasets, channels, sensor_data, ing, dreq, resp, writes, raced>>

\* one call of get_window_filtered with cursor = the previous next_cursor
PageNext ==
    /\ pg.pc = "paging"
    /\ Len(pg.pages) < MaxPages
    /\ LET r == GetWindowFiltered(pg.channel_id, pg.user_id, NoNum, NoNum,
                                  pg.cursor, pg.limit, pg.limit, "lttb", AcceptJson)
       IN pg' = [pg EXCEPT
                    !.pc = IF r.status # 200 THEN "error"
                           ELSE IF r.has_more THEN "paging" ELSE "done",
                    !.pages = IF r.status = 200
                              THEN Append(pg.pages, RowPairs(r.x, r.y)) ELSE pg.pages,
                    !.cursor = IF r.status = 200 /\ r.has_more
                               THEN AsFloat(r.next_cursor) ELSE pg.cursor]
    /\ UNCHANGED <<datasets, channels, sensor_data, ing, dreq, resp, writes, raced>>

\* the pagination loop itself, one call of get_window_filtered with
\* cursor = the previous next_cursor (no page kept) ...
PageLoopCall ==
    /\ pg.pc = "paging"
    /\ resp' = GetWindowFiltered(pg.channel_id, pg.user_id, NoNum, NoNum,
                                 pg.cursor, pg.limit, pg.limit, "lttb", AcceptJson)
    /\ pg' = [pg EXCEPT !.pc = "received"]
    /\ UNCHANGED <<datasets, channels, sensor_data, ing, dreq, writes, raced>>

\* ... and the loop's test of the response: go on with next_cursor while
\* has_more is true
PageLoopFeed ==
    /\ pg.pc = "received"
    /\ pg' = [pg EXCEPT
                 !.pc = IF resp.status # 200 THEN "error"
                        ELSE IF resp.has_more THEN "paging" ELSE "done",
                 !.cursor = IF resp.status = 200 /\ resp.has_more
                            THEN AsFloat(resp.next_cursor) ELSE pg.cursor]
    /\ resp' = NoResp
    /\ UNCHANGED <<datasets, channels, sensor_data, ing, dreq, writes, raced>>

\* the client gives up or is done; the response has been read
PageStop ==
    /\ pg.pc \in {"done", "error"} \/ (pg.pc = "paging" /\ Len(pg.pages) >= MaxPages)
    /\ pg' = IdlePg
    /\ UNCHANGED <<datasets, channels, sensor_data, ing, dreq, resp, writes, raced>>

\* ------------------------------------------------- SpecDown: pure inputs
\* ascending inputs: positions are running sums of gaps, as an ORDER BY gives
RECURSIVE OrderedInputs(_)
OrderedInputs(n) ==
    IF n = 0 THEN {<<>>}
    ELSE LET shorter == OrderedInputs(n - 1)
         IN shorter \cup
            {Append(s, [time |-> (IF Len(s) = 0 THEN 0 ELSE Last(s).time) + g,
                        value |-> v]) :
                s \in {t \in shorter : Len(t) = n - 1}, g \in Gaps, v \in Values}

DownInputs ==
    /\ df \in OrderedInputs(MaxN)
    /\ target_points \in 0..MaxPoints
    /\ out = <<>>
    /\ dpc = "input"

RunLttb ==
    /\ dpc = "input"
    /\ out' = smart_downsample_production(df, target_points)
    /\ dpc' = "lttb"
    /\ UNCHANGED <<df, target_points>>

RunUniform ==
    /\ dpc = "input"
    /\ out' = ApplyDownsampling(df, target_points, "uniform")
    /\ dpc' = "uniform"
    /\ UNCHANGED <<df, target_points>>

RunWindowLttb ==
    /\ dpc = "input"
    /\ out' = ApplyDownsampling(df, target_points, "lttb")
    /\ dpc' = "window"
    /\ UNCHANGED <<df, target_points>>

\* the client has read the response
ResponseRead ==
    /\ resp.endpoint # "None"
    /\ resp' = NoResp
    /\ UNCHANGED <<datasets, channels, sensor_data, ing, dreq, pg, writes, raced>>

\* ---- listing and metadata endpoints: routes/datasets.py, routes/channels.py
\* the X-User-Sub values a request may carry; "" is a missing header
Callers == Users \cup {""}

\* get_current_user_id, for a request that comes through the gateway: the
\* exception it raises, or NoValue when it returns x_user_sub
GetCurrentUserId(x_user_sub) ==
    IF x_user_sub = "" THEN "HTTPException401" ELSE NoValue

\* a response of these endpoints; body holds the returned objects
MetaResponse(endpoint, caller, status, detail, body) ==
    [endpoint |-> endpoint, caller |-> caller, status |-> status,
     detail |-> detail, body |-> body]

NoMeta == MetaResponse("None", NoValue, 0, "", <<>>)

MetaIdle == meta.endpoint = "None"

\* str(HTTPException(status_code, detail))
HttpExceptionStr(status, detail) ==
    IF status = 404 THEN "404: " \o detail ELSE "500: " \o detail

\* the rows of a result set, one after the other
RECURSIVE ResultRows(_)
ResultRows(rows) ==
    IF rows = {} THEN <<>>
    ELSE LET r == CHOOSE x \in rows : TRUE
         IN <<r>> \o ResultRows(rows \ {r})

\* DatasetRepository.get_all(user_id): the user's Dataset rows (ORDER BY
\* created_at, which the rows of the model do not carry)
DatasetGetAll(user_id) ==
    ResultRows(IF user_id # "" THEN {r \in datasets : r.user_id = user_id}
               ELSE datasets)

\* ChannelRepository.get_by_dataset_id: WHERE dataset_id = ... ORDER BY channel_id
ChannelGetByDatasetId(d) ==
    LET rows == {c \in channels : c.dataset_id = d}
        ids == SortedSeq({c.channel_id[2] : c \in rows})
    IN [k \in 1..Len(ids) |-> CHOOSE c \in rows : c.channel_id[2] = ids[k]]

\* SensorDataRepository.get_time_range as the endpoint returns it; min() and
\* max() over no row are the column's default, count() is 0
TimeRangeOf(cid) ==
    LET has_time == ChannelOf(cid).has_time
        rows == {r \in sensor_data :
                    r.channel_id = cid
                    /\ r.is_time_series = (IF has_time THEN 1 ELSE 0)}
        keys == {SortKey(r, has_time) : r \in rows}
    IN [channel_id |-> cid, has_time |-> has_time,
        min |-> IF keys = {} THEN 0 ELSE CHOOSE k \in keys : \A q \in keys : k <= q,
        max |-> IF keys = {} THEN 0 ELSE CHOOSE k \in keys : \A q \in keys : k >= q,
        total_points |-> Cardinality(rows)]

\* list_datasets
ListDatasets(caller) ==
    IF GetCurrentUserId(caller) # NoValue
    THEN MetaResponse("list_datasets", caller, 401, "Authentication required", <<>>)
    ELSE MetaResponse("list_datasets", caller, 200, "", DatasetGetAll(caller))

\* the except clauses of get_dataset_meta
MetaStatus(raised) ==
    IF raised = "ForbiddenAccessError" THEN 403
    ELSE IF raised = "DatasetNotFoundError" THEN 404
    ELSE 500

\* get_dataset_meta
GetDatasetMeta(d, caller) ==
    IF GetCurrentUserId(caller) # NoValue
    THEN MetaResponse("get_dataset_meta", caller, 401, "Authentication required", <<>>)
    ELSE LET raised == DatasetGetById(d, caller)
         IN IF raised # NoValue
            THEN MetaResponse("get_dataset_meta", caller, MetaStatus(raised),
                     IF raised = "ForbiddenAccessError"
                     THEN "Access forbidden - you don't own this dataset"
                     ELSE "Dataset not found", <<>>)
            ELSE MetaResponse("get_dataset_meta", caller, 200, "",
                     <<[dataset_id |-> d, user_id |-> DatasetOf(d).user_id,
                        total_points |-> DatasetOf(d).total_points,
                        channels |-> ChannelGetByDatasetId(d)]>>)

\* list_channels: the handler takes no identity; the HTTPException(404) is
\* raised inside the try block and "except Exception" catches it
ListChannels(d, caller) ==
    LET chans == ChannelGetByDatasetId(d)
    IN IF chans = <<>>
       THEN MetaResponse("list_channels", caller, 500,
                "Database error: "
                   \o HttpExceptionStr(404, "Dataset not found or has no channels"),
                <<>>)
       ELSE MetaResponse("list_channels", caller, 200, "", chans)

\* get_channel_time_range: the handler takes no identity
GetChannelTimeRange(cid, caller) ==
    IF ~ChannelExists(cid)
    THEN MetaResponse("get_channel_time_range", caller, 404, "Channel not found", <<>>)
    ELSE MetaResponse("get_channel_time_range", caller, 200, "", <<TimeRangeOf(cid)>>)

DoListDatasets ==
    /\ MetaIdle
    /\ \E caller \in Callers : meta' = ListDatasets(caller)
    /\ UNCHANGED <<storeVars, procVars>>

DoGetDatasetMeta ==
    /\ MetaIdle
    /\ \E d \in DatasetIds, caller \in Callers : meta' = GetDatasetMeta(d, caller)
    /\ UNCHANGED <<storeVars, procVars>>

DoListChannels ==
    /\ MetaIdle
    /\ \E d \in DatasetIds, caller \in Callers : meta' = ListChannels(d, caller)
    /\ UNCHANGED <<storeVars, procVars>>

DoGetChannelTimeRange ==
    /\ MetaIdle
    /\ \E cid \in ChannelIds, caller \in Callers :
          meta' = GetChannelTimeRange(cid, caller)
    /\ UNCHANGED <<storeVars, procVars>>

\* the client has read the response
MetaRead ==
    /\ ~MetaIdle
    /\ meta' = NoMeta
    /\ UNCHANGED <<storeVars, procVars>>

\* ------------------------------------------------------- specifications
\* the request of a window response, as SpecWin keeps it
NoReq ==
    [endpoint |-> "None", channel_id |-> NoId, user_id |-> NoValue,
     start |-> NoNum, end |-> NoNum, start_sec |-> NoNum, end_sec |-> NoNum,
     relative |-> FALSE, cursor |-> NoNum, limit |-> 0, points |-> 0,
     method |-> NoValue, accept |-> <<>>]

\* ------------------------------------------- the addressing resolver
\* _process_tdms_channel, "Handle time information": a channel of n values
\* whose time_track() returns None ("none"), raises ("raises"), returns
\* something pd.to_datetime rejects ("unreadable"), or returns one time per
\* value ("track").
MaxTrack == 3
MaxTime == 3
TrackKinds == {"none", "raises", "unreadable", "track"}

RECURSIVE TracksOfLen(_)
TracksOfLen(k) ==
    IF k = 0 THEN {<<>>}
    ELSE {Append(t, x) : t \in TracksOfLen(k - 1), x \in 0..MaxTime}

TdmsChannels ==
    {[kind |-> "track", n |-> Len(t), t |-> t] :
        t \in UNION {TracksOfLen(k) : k \in 1..MaxTrack}}
    \cup {[kind |-> kd, n |-> n, t |-> <<>>] :
            kd \in TrackKinds \ {"track"}, n \in 1..MaxTrack}

NoChannel == [kind |-> "none", n |-> 0, t |-> <<>>]
NoResolved == [has_time |-> FALSE, timestamps |-> <<>>, pc |-> "idle"]

\* pd.to_datetime on numbers: the value read as nanoseconds since the epoch
ToDatetimeNs(x) == x

\* "t = channel.time_track(); if t is not None: timestamps_data =
\* pd.to_datetime(t); has_time = True", any exception caught
TimeTrackUsed(c) == c.kind = "track"

\* has_time and timestamps_data as _process_tdms_channel returns them; the
\* fallback is pd.Series(np.arange(len(values), dtype=np.uint64))
ResolveAddressing(c) ==
    [has_time |-> TimeTrackUsed(c),
     timestamps |-> IF TimeTrackUsed(c)
                    THEN [k \in 1..c.n |-> ToDatetimeNs(c.t[k])]
                    ELSE [k \in 1..c.n |-> k - 1],
     pc |-> "done"]

AddrIdle ==
    /\ tchan = NoChannel
    /\ resolved = NoResolved

AddrInputs ==
    /\ tchan \in TdmsChannels
    /\ resolved = NoResolved

ProcessTdmsChannel ==
    /\ resolved.pc = "idle"
    /\ resolved' = ResolveAddressing(tchan)
    /\ UNCHANGED tchan

\* ------------------------------------------------ chunked bulk insert
\* SensorDataRepository.bulk_insert_columnar on a table of total_rows rows
\* (numbered 1..total_rows here) with chunk size chunk_size; calls is the
\* sequence of chunks handed to insert_arrow_table.
MaxBulkRows == 6
MaxChunk == 4

NoBulk == [total_rows |-> 0, chunk_size |-> 1, start |-> 0, calls |-> <<>>, pc |-> "idle"]

\* mutant: the slice is one row short
TableSlice_DropLast(rows, offset, length) ==
    SubSeq(rows, offset + 1, Min(offset + length - 1, Len(rows)))

\* pyarrow Table.slice(offset, length)
TableSlice(rows, offset, length) ==
    SubSeq(rows, offset + 1, Min(offset + length, Len(rows)))

BulkIdle == bulk = NoBulk

BulkInputs ==
    \E n \in 0..MaxBulkRows, c \in 1..MaxChunk :
        bulk = [total_rows |-> n, chunk_size |-> c, start |-> 0,
                calls |-> <<>>, pc |-> "called"]

\* "if total_rows == 0: return"; otherwise the table is built and the loop
\* begins
BulkBegin ==
    /\ bulk.pc = "called"
    /\ bulk' = [bulk EXCEPT !.pc = IF bulk.total_rows = 0 THEN "done" ELSE "loop"]
    /\ UNCHANGED <<tchan, resolved>>

\* one iteration of "for start in range(0, total_rows, chunk_size)":
\* end = min(start + chunk_size, total_rows); insert_arrow_table(slice)
BulkInsertChunk ==
    /\ bulk.pc = "loop"
    /\ bulk.start < bulk.total_rows
    /\ LET end == Min(bulk.start + bulk.chunk_size, bulk.total_rows)
           table == [k \in 1..bulk.total_rows |-> k]
       IN bulk' = [bulk EXCEPT
                     !.calls = Append(@, TableSlice(table, bulk.start, end - bulk.start)),
                     !.start = bulk.start + bulk.chunk_size]
    /\ UNCHANGED <<tchan, resolved>>

\* the range is exhausted
BulkReturn ==
    /\ bulk.pc = "loop"
    /\ bulk.start >= bulk.total_rows
    /\ bulk' = [bulk EXCEPT !.pc = "done"]
    /\ UNCHANGED <<tchan, resolved>>

\* --------------------------------------------- asynchronous inserts
\* _connect opens the connection with async_insert = 1 and
\* wait_for_async_insert = 0: the server acknowledges an INSERT as soon as it
\* has buffered the rows, and writes the buffer of a table to the table
\* later.  pending holds the acknowledged rows not yet written.
NoPending == [datasets |-> {}, channels |-> {}, sensor_data |-> {}]

\* the INSERT returns with the rows buffered
Acknowledge(table, rows) == [pending EXCEPT ![table] = @ \cup rows]

\* dataset_repo.create: INSERT INTO datasets through _execute
AsyncIngestCreateDataset ==
    LET rows == {DatasetRow(ing.dataset_id, ing.user_id, TotalPoints(ing.channels_data))}
    IN /\ ClientIdle
       /\ IngestBusy /\ CurrentStep.table = "datasets"
       /\ pending' = Acknowledge("datasets", rows)
       /\ writes' = Append(writes, WriteRecord(ing, TRUE))
       /\ ing' = Advance(ing)
       /\ UNCHANGED <<datasets, channels, sensor_data, dreq, resp, pg, raced>>

\* channel_repo.create: INSERT INTO channels through _execute
AsyncIngestCreateChannel ==
    LET rows == {ChannelRow(CurrentChannel, ing.dataset_id)}
    IN /\ ClientIdle
       /\ IngestBusy /\ CurrentStep.table = "channels"
       /\ pending' = Acknowledge("channels", rows)
       /\ writes' = Append(writes, WriteRecord(ing, TRUE))
       /\ ing' = Advance(ing)
       /\ UNCHANGED <<datasets, channels, sensor_data, dreq, resp, pg, raced>>

\* insert_arrow_table(chunk): client.insert_arrow under the same settings
AsyncIngestChunk ==
    LET rows == ChunkRows(CurrentChannel, ing.dataset_id, CurrentStep.off)
    IN /\ ClientIdle
       /\ IngestBusy /\ CurrentStep.table = "sensor_data"
       /\ pending' = Acknowledge("sensor_data", rows)
       /\ writes' = Append(writes, WriteRecord(ing, TRUE))
       /\ ing' = Advance(ing)
       /\ UNCHANGED <<datasets, channels, sensor_data, dreq, resp, pg, raced>>

\* the server writes the buffer of one table
FlushAsyncInserts(table) ==
    /\ pending[table] # {}
    /\ pending' = [pending EXCEPT ![table] = {}]
    /\ datasets' = IF table = "datasets" THEN datasets \cup pending[table] ELSE datasets
    /\ channels' = IF table = "channels" THEN channels \cup pending[table] ELSE channels
    /\ sensor_data' = IF table = "sensor_data" THEN sensor_data \cup pending[table]
                      ELSE sensor_data
    /\ UNCHANGED <<ing, dreq, resp, pg, writes, raced>>

\* ------------------------------------- the process: threads and handles
\* One service process: the event loop thread, which runs every "async def"
\* handler and the scheduler's coroutine job, and the worker threads in
\* which the framework runs the plain "def" dependency
\* get_clickhouse_client.  A ClickHouseClient is a handle: one connection
\* and one RLock.
MaxHandles == 3
MaxHandlerCalls == 2
PoolThreads == {"pool1", "pool2"}
Threads == {"loop"} \cup PoolThreads
Handles == 1..MaxHandles
\* lifespan: clickhouse_client = ClickHouseClient()
LifespanHandle == 1
\* _ensure_database_exists: admin_client, a connection of its own, no lock
AdminConn == 0
\* run_automatic_cleanup: three _execute calls
CleanupCalls == 3
\* _create_tables: three _execute calls; _apply_session_settings: one
CtorCalls == 4

IdleThread == [task |-> "none", pc |-> "idle", handle |-> AdminConn, left |-> 0]

\* the connection the thread's next storage call uses: the constructor's
\* first call is admin_client.command, the others go through the handle
CallHandle(st) ==
    IF st.task = "ctor" /\ st.left = CtorCalls + 1 THEN AdminConn ELSE st.handle

\* the scheduler fires: run_automatic_cleanup(clickhouse_client) starts on
\* the event loop with the handle the lifespan built
CleanupJobStart ==
    /\ thr["loop"].pc = "idle"
    /\ thr' = [thr EXCEPT !["loop"] =
                 [task |-> "cleanup", pc |-> "waiting",
                  handle |-> LifespanHandle, left |-> CleanupCalls]]
    /\ UNCHANGED <<cache, created, lockOwner, inflight>>

\* a request's dependency get_clickhouse_client() runs in a worker thread:
\* a cache hit returns the cached handle, a miss constructs a new one
ResolveClient(t) ==
    /\ thr[t].pc = "idle"
    /\ IF cache # NoNum
       THEN /\ thr' = [thr EXCEPT ![t] =
                         [task |-> "handler", pc |-> "resolved",
                          handle |-> cache, left |-> 0]]
            /\ UNCHANGED created
       ELSE /\ created < MaxHandles
            /\ created' = created + 1
            /\ thr' = [thr EXCEPT ![t] =
                         [task |-> "ctor", pc |-> "waiting",
                          handle |-> created + 1, left |-> CtorCalls + 1]]
    /\ UNCHANGED <<cache, lockOwner, inflight>>

\* _execute / _insert / insert_arrow_table: "with self._lock:" entered and
\* the call sent (admin_client.command takes no lock)
CallBegin(t) ==
    LET h == CallHandle(thr[t])
    IN /\ thr[t].pc = "waiting"
       /\ IF h = AdminConn THEN TRUE ELSE lockOwner[h] = "free"
       /\ lockOwner' = IF h = AdminConn THEN lockOwner
                       ELSE [lockOwner EXCEPT ![h] = t]
       /\ inflight' = inflight \cup {[thread |-> t, handle |-> h]}
       /\ thr' = [thr EXCEPT ![t].pc = "calling"]
       /\ UNCHANGED <<cache, created>>

\* the call returns and the lock is released; after its last call the
\* constructor returns (lru_cache keeps the first result stored), the job
\* or handler ends
CallEnd(t) ==
    LET st == thr[t]
        h == CallHandle(st)
    IN /\ st.pc = "calling"
       /\ inflight' = inflight \ {[thread |-> t, handle |-> h]}
       /\ lockOwner' = IF h = AdminConn THEN lockOwner
                       ELSE [lockOwner EXCEPT ![h] = "free"]
       /\ IF st.left > 1
          THEN /\ thr' = [thr EXCEPT ![t].pc = "waiting", ![t].left = st.left - 1]
               /\ UNCHANGED cache
          ELSE IF st.task = "ctor"
          THEN /\ thr' = [thr EXCEPT ![t] =
                            [task |-> "handler", pc |-> "resolved",
                             handle |-> st.handle, left |-> 0]]
               /\ cache' = IF cache = NoNum THEN st.handle ELSE cache
          ELSE /\ thr' = [thr EXCEPT ![t] = IdleThread]
               /\ UNCHANGED cache
       /\ UNCHANGED created

\* the dependency is resolved: the handler body runs on the event loop and
\* makes its storage calls through the handle it was given
HandlerRun(t) ==
    /\ thr["loop"].pc = "idle"
    /\ thr[t].pc = "resolved"
    /\ \E n \in 1..MaxHandlerCalls :
          thr' = [thr EXCEPT !["loop"] =
                     [task |-> "handler", pc |-> "waiting",
                      handle |-> thr[t].handle, left |-> n],
                  ![t] = IdleThread]
    /\ UNCHANGED <<cache, created, lockOwner, inflight>>

\* after the lifespan's startup: one handle built, nothing cached
ProcInit ==
    /\ cache = NoNum
    /\ created = 1
    /\ lockOwner = [h \in Handles |-> "free"]
    /\ inflight = {}
    /\ thr = [t \in Threads |-> IdleThread]

BaseInit ==
    /\ ProcInit
    /\ pending = NoPending
    /\ req = NoReq
    /\ datasets = {}
    /\ channels = {}
    /\ sensor_data = {}
    /\ ing = IdleIng
    /\ dreq = IdleDel
    /\ resp = NoResp
    /\ pg = IdlePg
    /\ writes = <<>>
    /\ raced = {}
    /\ cleanup = IdleCleanup
    /\ meta = NoMeta

DownIdle ==
    /\ df = <<>>
    /\ target_points = 0
    /\ out = <<>>
    /\ dpc = "input"

StoreInit == BaseInit /\ AddrIdle /\ BulkIdle

Init == StoreInit /\ DownIdle

Next ==
    \/ \E d \in DatasetIds, u \in Users, file \in Files :
          IngestStart(d, u, file) /\ UNCHANGED <<downVars, req, auxVars, pureVars>>
    \/ IngestCreateDataset /\ UNCHANGED <<downVars, req, auxVars, pureVars>>
    \/ IngestCreateChannel /\ UNCHANGED <<downVars, req, auxVars, pureVars>>
    \/ IngestChunk /\ UNCHANGED <<downVars, req, auxVars, pureVars>>
    \/ IngestWriteFails /\ UNCHANGED <<downVars, req, auxVars, pureVars>>
    \/ \E d \in DatasetIds, u \in Users : DeleteStart(d, u) /\ UNCHANGED <<downVars, req, auxVars, pureVars>>
    \/ DeleteSensorData /\ UNCHANGED <<downVars, req, auxVars, pureVars>>
    \/ DeleteChannels /\ UNCHANGED <<downVars, req, auxVars, pureVars>>
    \/ DeleteDataset /\ UNCHANGED <<downVars, req, auxVars, pureVars>>
    \/ DeleteStepFails /\ UNCHANGED <<downVars, req, auxVars, pureVars>>
    \/ DoGetWindow /\ UNCHANGED <<downVars, req, auxVars, pureVars>>
    \/ DoGetWindowFiltered /\ UNCHANGED <<downVars, req, auxVars, pureVars>>
    \/ \E cid \in ChannelIds, u \in Users, limit \in MinLimit..MaxLimit :
          PageStart(cid, u, limit) /\ UNCHANGED <<downVars, req, auxVars, pureVars>>
    \/ PageNext /\ UNCHANGED <<downVars, req, auxVars, pureVars>>
    \/ PageStop /\ UNCHANGED <<downVars, req, auxVars, pureVars>>
    \/ ResponseRead /\ UNCHANGED <<downVars, req, auxVars, pureVars>>

Spec == Init /\ [][Next]_vars

DownInit == DownInputs /\ StoreInit

DownNext ==
    \/ RunLttb /\ UNCHANGED <<storeVars, procVars, req, auxVars, pureVars>>
    \/ RunUniform /\ UNCHANGED <<storeVars, procVars, req, auxVars, pureVars>>
    \/ RunWindowLttb /\ UNCHANGED <<storeVars, procVars, req, auxVars, pureVars>>

SpecDown == DownInit /\ [][DownNext]_vars

\* ---- SpecWin: ingestions build the store, window requests are kept
\* beside their responses
OptStart == OptSecond \cup {MaxRows}     \* MaxRows lies past every stored row
OptCursor == {NoNum, AsFloat(1)}

WinGetWindow ==
    /\ ClientIdle
    /\ \E cid \in ChannelIds, u \in Users, start \in OptStart, end \in OptSecond,
          start_sec \in OptOffset, end_sec \in OptOffset, relative \in BOOLEAN,
          points \in PointsChoices, method \in Methods, accept \in AcceptChoices :
          /\ resp' = GetWindow(cid, u, start, end, start_sec, end_sec, relative,
                               points, method, accept)
          /\ req' = [NoReq EXCEPT !.endpoint = "window", !.channel_id = cid,
                        !.user_id = u, !.start = start, !.end = end,
                        !.start_sec = start_sec, !.end_sec = end_sec,
                        !.relative = relative, !.limit = DefaultLimit,
                        !.points = points, !.method = method, !.accept = accept]
    /\ UNCHANGED <<datasets, channels, sensor_data, ing, dreq, pg, writes, raced>>

WinGetWindowFiltered ==
    /\ ClientIdle
    /\ \E cid \in ChannelIds, u \in Users, s \in OptStart, e \in OptSecond,
          cursor \in OptCursor, limit \in MinLimit..MaxLimit,
          points \in PointsChoices, method \in Methods, accept \in AcceptChoices :
          /\ resp' = GetWindowFiltered(cid, u,
                        IF s = NoNum THEN NoNum ELSE AsFloat(s),
                        IF e = NoNum THEN NoNum ELSE AsFloat(e),
                        cursor, limit, points, method, accept)
          /\ req' = [NoReq EXCEPT !.endpoint = "get_window_filtered",
                        !.channel_id = cid, !.user_id = u,
                        !.start = IF s = NoNum THEN NoNum ELSE AsFloat(s),
                        !.end = IF e = NoNum THEN NoNum ELSE AsFloat(e),
                        !.cursor = cursor, !.limit = limit,
                        !.points = points, !.method = method, !.accept = accept]
    /\ UNCHANGED <<datasets, channels, sensor_data, ing, dreq, pg, writes, raced>>

WinResponseRead ==
    /\ resp.endpoint # "None"
    /\ resp' = NoResp
    /\ req' = NoReq
    /\ UNCHANGED <<datasets, channels, sensor_data, ing, dreq, pg, writes, raced>>

WinNext ==
    \/ \E d \in DatasetIds, file \in Files :
          IngestStart(d, "A", file) /\ UNCHANGED <<downVars, req, auxVars, pureVars>>
    \/ IngestCreateDataset /\ UNCHANGED <<downVars, req, auxVars, pureVars>>
    \/ IngestCreateChannel /\ UNCHANGED <<downVars, req, auxVars, pureVars>>
    \/ IngestChunk /\ UNCHANGED <<downVars, req, auxVars, pureVars>>
    \/ WinGetWindow /\ UNCHANGED <<downVars, auxVars, pureVars>>
    \/ WinGetWindowFiltered /\ UNCHANGED <<downVars, auxVars, pureVars>>
    \/ WinResponseRead /\ UNCHANGED <<downVars, auxVars, pureVars>>

SpecWin == Init /\ [][WinNext]_vars

\* ---- SpecIng: ingestions alone, of every file, with failing writes
IngNext ==
    \/ \E d \in DatasetIds, u \in Users, file \in AllFiles :
          IngestStart(d, u, file) /\ UNCHANGED <<downVars, req, auxVars, pureVars>>
    \/ IngestCreateDataset /\ UNCHANGED <<downVars, req, auxVars, pureVars>>
    \/ IngestCreateChannel /\ UNCHANGED <<downVars, req, auxVars, pureVars>>
    \/ IngestChunk /\ UNCHANGED <<downVars, req, auxVars, pureVars>>
    \/ IngestWriteFails /\ UNCHANGED <<downVars, req, auxVars, pureVars>>

SpecIng == Init /\ [][IngNext]_vars

\* the addressing resolver applied to every bounded channel
AddrInit == AddrInputs /\ BaseInit /\ DownIdle /\ BulkIdle

AddrNext ==
    \/ ProcessTdmsChannel
          /\ UNCHANGED <<downVars, storeVars, procVars, req, auxVars, bulk>>

SpecAddr == AddrInit /\ [][AddrNext]_vars

\* bulk_insert_columnar on every bounded table and chunk size
ChunkInit == BulkInputs /\ BaseInit /\ DownIdle /\ AddrIdle

ChunkNext ==
    \/ BulkBegin /\ UNCHANGED <<downVars, storeVars, procVars, req, auxVars>>
    \/ BulkInsertChunk /\ UNCHANGED <<downVars, storeVars, procVars, req, auxVars>>
    \/ BulkReturn /\ UNCHANGED <<downVars, storeVars, procVars, req, auxVars>>

SpecChunk == ChunkInit /\ [][ChunkNext]_vars

\* the pagination loop over the stores that ingestions build; no write
\* happens while a client is paging, and a client that is paging makes its
\* next call
PageLoopStep ==
    \/ PageLoopCall /\ UNCHANGED <<downVars, req, auxVars, pureVars>>
    \/ PageLoopFeed /\ UNCHANGED <<downVars, req, auxVars, pureVars>>

PagingNext ==
    \/ \E d \in DatasetIds, file \in Files :
          IngestStart(d, "A", file) /\ UNCHANGED <<downVars, req, auxVars, pureVars>>
    \/ IngestCreateDataset /\ UNCHANGED <<downVars, req, auxVars, pureVars>>
    \/ IngestCreateChannel /\ UNCHANGED <<downVars, req, auxVars, pureVars>>
    \/ IngestChunk /\ UNCHANGED <<downVars, req, auxVars, pureVars>>
    \/ \E cid \in ChannelIds, u \in Users, limit \in MinLimit..MaxLimit :
          PageStart(cid, u, limit) /\ UNCHANGED <<downVars, req, auxVars, pureVars>>
    \/ PageLoopStep
    \/ PageStop /\ UNCHANGED <<downVars, req, auxVars, pureVars>>

SpecPaging == Init /\ [][PagingNext]_vars /\ WF_vars(PageLoopStep)

\* ingestion over the connection's asynchronous inserts
AsyncNext ==
    \/ \E d \in DatasetIds, file \in Files :
          IngestStart(d, "A", file)
             /\ UNCHANGED <<downVars, req, cache, created, lockOwner, inflight, thr, pending, cleanup, meta, pureVars>>
    \/ AsyncIngestCreateDataset
          /\ UNCHANGED <<downVars, req, cache, created, lockOwner, inflight, thr, cleanup, meta, pureVars>>
    \/ AsyncIngestCreateChannel
          /\ UNCHANGED <<downVars, req, cache, created, lockOwner, inflight, thr, cleanup, meta, pureVars>>
    \/ AsyncIngestChunk
          /\ UNCHANGED <<downVars, req, cache, created, lockOwner, inflight, thr, cleanup, meta, pureVars>>
    \/ \E table \in {"datasets", "channels", "sensor_data"} :
          FlushAsyncInserts(table)
             /\ UNCHANGED <<downVars, req, cache, created, lockOwner, inflight, thr, cleanup, meta, pureVars>>

SpecAsync == Init /\ [][AsyncNext]_vars

\* the process's threads alone
ProcNext ==
    \/ CleanupJobStart /\ UNCHANGED <<downVars, storeVars, procVars, req, pending, cleanup, meta, pureVars>>
    \/ \E t \in PoolThreads :
          ResolveClient(t) /\ UNCHANGED <<downVars, storeVars, procVars, req, pending, cleanup, meta, pureVars>>
    \/ \E t \in Threads :
          CallBegin(t) /\ UNCHANGED <<downVars, storeVars, procVars, req, pending, cleanup, meta, pureVars>>
    \/ \E t \in Threads :
          CallEnd(t) /\ UNCHANGED <<downVars, storeVars, procVars, req, pending, cleanup, meta, pureVars>>
    \/ \E t \in PoolThreads :
          HandlerRun(t) /\ UNCHANGED <<downVars, storeVars, procVars, req, pending, cleanup, meta, pureVars>>

SpecProc == Init /\ [][ProcNext]_vars

\* ingestion and deletion, interleaved, build the stores; from the start of a
\* cleanup until its result is read nothing else writes
CleanupRest ==
    <<downVars, req, pending, cache, created, lockOwner, inflight, thr, meta, pureVars>>

CleanupNext ==
    \/ \E d \in DatasetIds, file \in Files :
          /\ CleanupIdle
          /\ IngestStart(d, "A", file) /\ UNCHANGED <<downVars, req, auxVars, pureVars>>
    \/ CleanupIdle /\ IngestCreateDataset /\ UNCHANGED <<downVars, req, auxVars, pureVars>>
    \/ CleanupIdle /\ IngestCreateChannel /\ UNCHANGED <<downVars, req, auxVars, pureVars>>
    \/ CleanupIdle /\ IngestChunk /\ UNCHANGED <<downVars, req, auxVars, pureVars>>
    \/ CleanupIdle /\ IngestWriteFails /\ UNCHANGED <<downVars, req, auxVars, pureVars>>
    \/ \E d \in DatasetIds :
          /\ CleanupIdle
          /\ DeleteStart(d, "A") /\ UNCHANGED <<downVars, req, auxVars, pureVars>>
    \/ CleanupIdle /\ DeleteSensorData /\ UNCHANGED <<downVars, req, auxVars, pureVars>>
    \/ CleanupIdle /\ DeleteChannels /\ UNCHANGED <<downVars, req, auxVars, pureVars>>
    \/ CleanupIdle /\ DeleteDataset /\ UNCHANGED <<downVars, req, auxVars, pureVars>>
    \/ CleanupIdle /\ DeleteStepFails /\ UNCHANGED <<downVars, req, auxVars, pureVars>>
    \/ \E dry_run \in BOOLEAN :
          /\ ~IngestBusy /\ ~DeleteBusy
          /\ CleanupStart(dry_run) /\ UNCHANGED CleanupRest
    \/ CleanupOrphanPoints /\ UNCHANGED CleanupRest
    \/ CleanupEmptyChannels /\ UNCHANGED CleanupRest
    \/ CleanupOrphanChannels /\ UNCHANGED CleanupRest
    \/ CleanupRead /\ UNCHANGED CleanupRest

SpecCleanup == Init /\ [][CleanupNext]_vars

\* ingestions by either user build the stores; either user, or a request
\* without identity, asks for listings and metadata; the store is not written
\* between a response and its reading
MetaRest == <<downVars, req, pending, cache, created, lockOwner, inflight, thr, cleanup, pureVars>>

MetaNext ==
    \/ \E d \in DatasetIds, u \in Users, file \in Files :
          /\ MetaIdle
          /\ IngestStart(d, u, file) /\ UNCHANGED <<downVars, req, auxVars, pureVars>>
    \/ MetaIdle /\ IngestCreateDataset /\ UNCHANGED <<downVars, req, auxVars, pureVars>>
    \/ MetaIdle /\ IngestCreateChannel /\ UNCHANGED <<downVars, req, auxVars, pureVars>>
    \/ MetaIdle /\ IngestChunk /\ UNCHANGED <<downVars, req, auxVars, pureVars>>
    \/ DoListDatasets /\ UNCHANGED MetaRest
    \/ DoGetDatasetMeta /\ UNCHANGED MetaRest
    \/ DoListChannels /\ UNCHANGED MetaRest
    \/ DoGetChannelTimeRange /\ UNCHANGED MetaRest
    \/ MetaRead /\ UNCHANGED MetaRest

SpecMeta == Init /\ [][MetaNext]_vars

\* ================================================================ claims
\* ---- helpers of the claims
RECURSIVE Flatten(_)
Flatten(ss) == IF ss = <<>> THEN <<>> ELSE Head(ss) \o Flatten(Tail(ss))

NonDecreasing(rows) == \A k \in 1..(Len(rows) - 1) : rows[k].time <= rows[k + 1].time

SensorRowsOf(d) == {r \in sensor_data : r.dataset_id = d}
ChannelsOf(d) == {c \in channels : c.dataset_id = d}

NoOrphanRows(d) ==
    /\ \A r \in SensorRowsOf(d) : ChannelExists(r.channel_id)
    /\ \A c \in ChannelsOf(d) : DatasetExists(d)

OkWrite(i, table) == writes[i].ok /\ writes[i].table = table

FailedChunkWrites ==
    {i \in 1..Len(writes) : ~writes[i].ok /\ writes[i].table = "sensor_data"}

RespChannelOwnedByOther ==
    /\ resp.endpoint \in {"window", "get_window_filtered"}
    /\ ChannelExists(resp.channel_id)
    /\ DatasetExists(ChannelOf(resp.channel_id).dataset_id)
    /\ DatasetOf(ChannelOf(resp.channel_id).dataset_id).user_id # resp.user_id

RespChannelOrDatasetMissing ==
    /\ resp.endpoint \in {"window", "get_window_filtered"}
    /\ \/ ~ChannelExists(resp.channel_id)
       \/ ~DatasetExists(ChannelOf(resp.channel_id).dataset_id)

\* C1: for every ordered input of N rows and every target M >= 3, LTTB
\* returns exactly min(N, M) rows, the first being the input's first row and
\* the last the input's last row.
C1_LttbLengthAndEndpoints ==
    (dpc = "lttb" /\ target_points >= 3) =>
        /\ Len(out) = Min(Len(df), target_points)
        /\ Len(df) > 0 => (out[1] = df[1] /\ out[Len(out)] = df[Len(df)])

C1_Witness ==
    /\ dpc = "lttb" /\ target_points >= 3 /\ Len(df) > target_points + 1
    /\ Len(out) = target_points
    /\ out[1] = df[1] /\ out[Len(out)] = df[Len(df)]

\* C2 (as claimed): paging through a channel with get_window_filtered,
\* feeding each next_cursor back as cursor until has_more is false, with no
\* downsampling and no concurrent write, yields pages whose concatenation is
\* the channel's full ordered row sequence, every row exactly once.
C2_PagesPartitionChannel ==
    (pg.pc = "done" /\ ~IngestBusy /\ ~DeleteBusy) =>
        Flatten(pg.pages) = ChannelSequence(pg.channel_id)

\* C3: a window request for an existing channel whose dataset exists and is
\* owned by another identity ends with Forbidden (403), and no query against
\* sensor_data is issued for it.
C3_ForbiddenBeforeRows ==
    RespChannelOwnedByOther =>
        /\ resp.status = 403
        /\ "sensor_data" \notin Range(resp.queries)

C3_Witness ==
    /\ RespChannelOwnedByOther
    /\ resp.status = 403
    /\ \E r \in sensor_data : r.channel_id = resp.channel_id

\* C4 (as claimed): a window request whose channel does not exist, or whose
\* channel references a dataset that does not exist, ends with NotFound (404).
C4_MissingIsNotFound ==
    RespChannelOrDatasetMissing => resp.status = 404

C6_ParentsWrittenFirst ==
    /\ \A c \in channels :
          \E i, j \in 1..Len(writes) :
             /\ i < j
             /\ OkWrite(i, "datasets") /\ writes[i].dataset_id = c.dataset_id
             /\ OkWrite(j, "channels") /\ writes[j].channel_id = c.channel_id
    /\ \A r \in sensor_data :
          \E i, j \in 1..Len(writes) :
             /\ i < j
             /\ OkWrite(i, "channels") /\ writes[i].channel_id = r.channel_id
             /\ OkWrite(j, "sensor_data") /\ writes[j].channel_id = r.channel_id

C6_Witness ==
    /\ ing.pc = "failed" /\ ing.error.type = "IngestionError"
    /\ Cardinality(channels) = 2
    /\ sensor_data # {}
    /\ C6_ParentsWrittenFirst

\* C7: when a chunk write fails during ingestion, no further write of that
\* ingestion is issued (no further chunk, no later channel), the failing
\* step removes nothing already stored, and the ingestion ends with an
\* IngestionError.
C7_StateAfterFailedChunk ==
    \A i \in FailedChunkWrites :
        /\ \A j \in (i + 1)..Len(writes) : writes[j].dataset_id # writes[i].dataset_id
        /\ ing.dataset_id = writes[i].dataset_id =>
              (ing.pc = "failed" /\ ing.error.type = "IngestionError")

C7_FailedChunkAbortsIngestion ==
    /\ []C7_StateAfterFailedChunk
    /\ [][(Len(writes') > Len(writes) /\ ~writes'[Len(writes')].ok)
              => UNCHANGED storeVars]_vars

C7_Witness ==
    /\ ing.pc = "failed"
    /\ Len(writes) \in FailedChunkWrites
    /\ writes[Len(writes)].off > 0
    /\ ing.plan[ing.k].ci < Len(ing.channels_data)
    /\ ChunkRows(ing.channels_data[ing.plan[ing.k].ci], ing.dataset_id, 0)
          \subseteq sensor_data

\* C8 (as claimed): the ingestion failure reported for a failed chunk write
\* names the channel being written and the row offset of the failing chunk.
C8_FailureNamesChannelAndOffset ==
    (ing.pc = "failed" /\ Len(writes) \in FailedChunkWrites
        /\ writes[Len(writes)].dataset_id = ing.dataset_id) =>
        /\ ing.error.channel = ing.channels_data[ing.plan[ing.k].ci].channel_name
        /\ ing.error.offset = ing.plan[ing.k].off

\* C9: for every ascending input of N rows and target M, the uniform path of
\* the window endpoints returns exactly min(N, M) rows, with non-decreasing
\* positions.
C9_UniformLengthAndOrder ==
    dpc = "uniform" =>
        /\ Len(out) = Min(Len(df), target_points)
        /\ NonDecreasing(out)

C9_Witness ==
    /\ dpc = "uniform" /\ Len(df) > target_points /\ target_points >= 2
    /\ Len(out) = target_points /\ NonDecreasing(out)

\* C10: when the number of fetched rows N is at most the requested points M,
\* the LTTB and the uniform strategy both return the fetched rows unchanged.
C10_NoOpWhenFewRows ==
    (dpc \in {"lttb", "uniform", "window"} /\ Len(df) <= target_points) => out = df

C10_Witness ==
    /\ dpc = "uniform" /\ Len(df) >= 2 /\ Len(df) < target_points
    /\ out = df

\* ---- helpers of the claims about window requests
FilteredOk ==
    /\ req.endpoint = "get_window_filtered"
    /\ resp.status = 200

\* the rows the storage query of the filtered request returns, before any
\* reduction in the handler
ReqRawFetched ==
    GetChannelDataRows(req.channel_id,
                       IF req.cursor # NoNum THEN req.cursor ELSE req.start,
                       req.end,
                       IF req.method = "clickhouse" THEN req.points * 2
                       ELSE req.limit)

\* C11 (as claimed): for every get_window_filtered request, with any
\* downsampling method, has_more is true exactly when the number of rows
\* fetched from storage before downsampling equals limit; next_cursor is set
\* exactly when has_more is true and is then the position of the last
\* returned row.
C11_HasMoreIffFetchedEqualsLimit ==
    (FilteredOk /\ resp.media_type = JSON_MIME) =>
        /\ resp.has_more <=> (Len(ReqRawFetched) = req.limit)
        /\ (resp.next_cursor # NoNum) <=> resp.has_more
        /\ resp.has_more => resp.next_cursor = Last(resp.x)

\* the stored rows of the requested channel that lie in the requested
\* window, whatever the limit
ReqWindowRows ==
    IF req.endpoint = "window"
    THEN LET tr == GetTimeRange(req.channel_id)
         IN GetChannelDataRows(req.channel_id,
                               WindowBound(tr, req.start, req.start_sec),
                               WindowBound(tr, req.end, req.end_sec),
                               Cardinality(sensor_data))
    ELSE GetChannelDataRows(req.channel_id,
                            IF req.cursor # NoNum THEN req.cursor ELSE req.start,
                            req.end, Cardinality(sensor_data))

ReqChannelOwnedByCaller ==
    /\ req.endpoint \in {"window", "get_window_filtered"}
    /\ ChannelExists(req.channel_id)
    /\ DatasetExists(ChannelOf(req.channel_id).dataset_id)
    /\ DatasetOf(ChannelOf(req.channel_id).dataset_id).user_id = req.user_id

ReqIndexChannelOk ==
    /\ req.endpoint = "window"
    /\ resp.status = 200
    /\ ~ChannelOf(req.channel_id).has_time

\* the rows of the requested channel whose sample_index lies between the
\* integers start and end, ascending, cut at the fetch limit
ReqIndexRows ==
    LimitRows(OrderBy({r \in sensor_data :
                          /\ r.channel_id = req.channel_id
                          /\ req.start # NoNum => r.sample_index >= req.start
                          /\ req.end # NoNum => r.sample_index <= req.end},
                      FALSE),
              DefaultLimit)

\* C13: for a channel with has_time = false the rows a window request
\* fetches are those whose sample_index lies between the integers start and
\* end; start_sec and end_sec never change the response.
C13_IndexChannelIgnoresOffsets ==
    ReqIndexChannelOk =>
        /\ resp = GetWindow(req.channel_id, req.user_id, req.start, req.end,
                            NoNum, NoNum, req.relative, req.points, req.method,
                            req.accept)
        /\ (req.method # "clickhouse" /\ Len(ReqIndexRows) <= req.points) =>
              /\ resp.x = [k \in 1..Len(ReqIndexRows) |-> ReqIndexRows[k].sample_index]
              /\ resp.y = [k \in 1..Len(ReqIndexRows) |-> ReqIndexRows[k].value]

C13_Witness ==
    /\ ReqIndexChannelOk
    /\ req.start = 1 /\ req.start_sec # NoNum /\ req.end_sec # NoNum
    /\ req.method = "lttb" /\ req.points = 3
    /\ resp.x = <<1, 2>>

\* the response to the same get_window request without the relative flag
ReqAbsoluteResp ==
    GetWindow(req.channel_id, req.user_id, req.start, req.end, req.start_sec,
              req.end_sec, FALSE, req.points, req.method, req.accept)

ReqRelativeOk ==
    /\ req.endpoint = "window"
    /\ req.relative
    /\ resp.status = 200
    /\ Len(resp.x) > 0

IngestEnded == ing.pc \in {"done", "failed"}

\* the rows of the store that belong to a channel of the given name
ChannelRowsNamed(d, nm) ==
    {c \in channels : c.dataset_id = d /\ c.channel_name = nm}
SensorRowsNamed(d, nm) ==
    {r \in sensor_data : \E c \in ChannelRowsNamed(d, nm) : r.channel_id = c.channel_id}

\* every kept channel has its row and all of its samples
KeptChannelsStored ==
    \A k \in 1..Len(ing.channels_data) :
        LET cd == ing.channels_data[k]
        IN /\ ChannelRow(cd, ing.dataset_id) \in channels
           /\ Cardinality({r \in sensor_data : r.channel_id = cd.channel_id}) = cd.n_rows

StorageWriteFailed == Len(writes) > 0 /\ ~writes[Len(writes)].ok

\* C15 (amended): a channel with zero samples, or whose values cannot be
\* converted to float64, produces no Channel row and no SensorPoint rows;
\* when the file has at least one other channel that is kept, those channels
\* are ingested and the ingestion fails only if a storage write fails.  (A
\* file all of whose channels are skipped ends in InvalidDataError with
\* nothing written.)
C15_SkippedChannelNotFatalWhenSomeKept ==
    /\ \A k \in 1..Len(ing.skipped) :
          /\ ChannelRowsNamed(ing.dataset_id, ing.skipped[k]) = {}
          /\ SensorRowsNamed(ing.dataset_id, ing.skipped[k]) = {}
    /\ (ing.skipped # <<>> /\ ing.channels_data # <<>>) =>
          /\ ing.pc = "done" => KeptChannelsStored
          /\ ing.pc = "failed" =>
                (StorageWriteFailed /\ ing.error.type = "IngestionError")
    /\ (ing.pc # "idle" /\ ing.channels_data = <<>>) =>
          /\ ing.pc = "failed" /\ ing.error.type = "InvalidDataError"
          /\ datasets = {} /\ channels = {} /\ sensor_data = {}

C15_Witness ==
    /\ ing.pc = "done"
    /\ "x" \in Range(ing.skipped)
    /\ Len(ing.channels_data) = 1
    /\ KeptChannelsStored
    /\ Cardinality(sensor_data) = MaxRows

\* C15 (as claimed): a skipped channel never makes the ingestion of the file
\* fail: an ingestion of a file with a skipped channel ends in an error only
\* because a storage write failed.
C15_SkippedChannelNeverFatal ==
    (ing.skipped # <<>> /\ ing.pc = "failed") => StorageWriteFailed

\* ---- C16: the process holds one storage handle guarded by one lock, so
\* it never has two storage calls in progress at the same moment (counted
\* here: the calls made under a handle's lock).
C16_OneStorageCallAtATime ==
    Cardinality({c \in inflight : c.handle # AdminConn}) <= 1

\* ---- C17: when the ingest request produces its success response, every
\* SensorPoint row of every ingested channel is in the store, where a window
\* query reads it.
C17_ResponseAfterAllRowsCommitted ==
    ing.pc = "done" =>
        \A k \in 1..Len(ing.channels_data) :
            LET cd == ing.channels_data[k]
            IN \A j \in 0..(cd.n_rows - 1) :
                  SensorRow(cd, ing.dataset_id, j) \in sensor_data

\* the response the recorded request gets when it asks for JSON
ReqJsonResp ==
    IF req.endpoint = "window"
    THEN GetWindow(req.channel_id, req.user_id, req.start, req.end, req.start_sec,
                   req.end_sec, req.relative, req.points, req.method, AcceptJson)
    ELSE GetWindowFiltered(req.channel_id, req.user_id, req.start, req.end,
                           req.cursor, req.limit, req.points, req.method, AcceptJson)

\* ---- C18: whenever the Accept header names the Arrow stream type, a
\* successful window request is answered under that content type with the
\* rows the JSON response carries in x and y; also when the window is empty.
C18_ArrowForEverySuccess ==
    (/\ req.endpoint \in {"window", "get_window_filtered"}
     /\ resp.status = 200
     /\ client_wants_arrow(req.accept)) =>
        /\ resp.media_type = ARROW_MIME
        /\ resp.x = ReqJsonResp.x
        /\ resp.y = ReqJsonResp.y

\* the 0-based indices of bucket i, and of the bucket after it (for the last
\* bucket: the last row)
BucketOf(n, m, i) ==
    {j \in 0..(n - 1) :
        /\ j >= BucketBound(n, m, i) + 1
        /\ j < Min(BucketBound(n, m, i + 1) + 1, n)}

\* twice the triangle area of rows a, j and the mean of bucket i + 1, times
\* the size of that bucket
BucketArea(rows, m, i, a, j) ==
    LET nxt == BucketOf(Len(rows), m, i + 1)
        lo == CHOOSE x \in nxt : \A y \in nxt : x <= y
    IN Area(rows, a, j, SumTime(rows, lo, lo + Cardinality(nxt)),
            SumValue(rows, lo, lo + Cardinality(nxt)), Cardinality(nxt))

\* the row of bucket i with the largest area against the row picked from
\* bucket i - 1 (row 0 for the first bucket); the lowest index among equals
RECURSIVE BucketPick(_, _, _)
BucketPick(rows, m, i) ==
    LET a == IF i = 0 THEN 0 ELSE BucketPick(rows, m, i - 1)
        b == BucketOf(Len(rows), m, i)
    IN CHOOSE j \in b :
          \A k \in b :
              \/ BucketArea(rows, m, i, a, j) > BucketArea(rows, m, i, a, k)
              \/ BucketArea(rows, m, i, a, j) = BucketArea(rows, m, i, a, k) /\ j <= k

LttbCase == dpc = "lttb" /\ target_points >= 3 /\ Len(df) > target_points

\* ---- C19: for M >= 3 and N > M, LTTB returns the first row, the last row
\* and from each of the M - 2 buckets exactly one row: the row of largest
\* triangle area against the previously picked row and the mean of the next
\* bucket, the lowest index among rows of equal largest area.
C19_LttbPicksMaxAreaLowestIndex ==
    LttbCase =>
        /\ \A i \in 0..(target_points - 3) : BucketOf(Len(df), target_points, i) # {}
        /\ out = Iloc(df, SortedSeq({0, Len(df) - 1} \cup
                          {BucketPick(df, target_points, i) : i \in 0..(target_points - 3)}))

\* a bucket where two different rows reach the largest area
C19_Witness ==
    /\ LttbCase
    /\ \E i \in 0..(target_points - 3) :
          \E k \in BucketOf(Len(df), target_points, i) :
             LET a == IF i = 0 THEN 0 ELSE BucketPick(df, target_points, i - 1)
                 p == BucketPick(df, target_points, i)
             IN /\ k # p
                /\ BucketArea(df, target_points, i, a, k)
                     = BucketArea(df, target_points, i, a, p)
                /\ BucketArea(df, target_points, i, a, p) > 0
                /\ df[k + 1] # df[p + 1]
    /\ Len(out) = target_points

\* ---- C20: every SensorPoint row written by ingestion has is_time_series
\* equal to its channel's has_time, so the rows of one channel share one
\* addressing mode; a row of a time-addressed channel has sample_index 0 and
\* a row of an index-addressed channel has timestamp 0.
C20_RowModeIsChannelMode ==
    /\ \A r \in sensor_data :
          /\ ChannelExists(r.channel_id)
          /\ r.is_time_series = (IF ChannelOf(r.channel_id).has_time THEN 1 ELSE 0)
          /\ ChannelOf(r.channel_id).has_time => r.sample_index = 0
          /\ ~ChannelOf(r.channel_id).has_time => r.timestamp = 0
    /\ \A r1, r2 \in sensor_data :
          r1.channel_id = r2.channel_id => r1.is_time_series = r2.is_time_series

\* an ingestion has written a later sample of a time-addressed channel and,
\* this one or another, a later sample of an index-addressed channel
C20_Witness ==
    /\ \E r \in sensor_data :
          ChannelOf(r.channel_id).has_time /\ r.timestamp > 0 /\ r.sample_index = 0
    /\ \E r \in sensor_data :
          ~ChannelOf(r.channel_id).has_time /\ r.sample_index > 0 /\ r.timestamp = 0

\* a sequence that never decreases, or never increases
Monotonic(t) ==
    \/ \A k \in 1..(Len(t) - 1) : t[k] <= t[k + 1]
    \/ \A k \in 1..(Len(t) - 1) : t[k] >= t[k + 1]

\* ---- C21: has_time is true exactly when the reader supplies a readable
\* time track that is monotonic; in every other case (no track, unreadable
\* track, non-monotonic track) has_time is false and the positions are the
\* integers 0..N-1 in sample order, one per value.
C21_HasTimeIffMonotonicTrack ==
    resolved.pc = "done" =>
        /\ resolved.has_time <=> (tchan.kind = "track" /\ Monotonic(tchan.t))
        /\ ~resolved.has_time =>
              resolved.timestamps = [k \in 1..tchan.n |-> k - 1]

\* ---- C22: a dataset's total_points is written once, after the SensorPoint
\* rows of all its channels have been written, and never changed; a Dataset
\* row is never visible with a total_points that counts rows not yet stored.
C22_TotalPointsAfterRows ==
    /\ \A d \in datasets :
          /\ d.total_points <= Cardinality(SensorRowsOf(d.dataset_id))
          /\ \A e \in datasets : e.dataset_id = d.dataset_id => e = d
    /\ \A i, j \in 1..Len(writes) :
          (/\ writes[i].table = "datasets"
           /\ writes[j].table = "sensor_data"
           /\ writes[i].dataset_id = writes[j].dataset_id) => j < i

\* ---- C23: bulk_insert_columnar on N rows with chunk size C issues exactly
\* ceil(N / C) write calls in ascending row order; the chunks are contiguous,
\* pairwise disjoint, of at most C rows each, and their concatenation is the
\* input row sequence; for N = 0 no write call is issued.
C23_ChunksPartitionRows ==
    bulk.pc = "done" =>
        LET N == bulk.total_rows
            C == bulk.chunk_size
        IN /\ Len(bulk.calls) * C >= N
           /\ (Len(bulk.calls) - 1) * C < N \/ (N = 0 /\ bulk.calls = <<>>)
           /\ \A k \in 1..Len(bulk.calls) :
                 Len(bulk.calls[k]) >= 1 /\ Len(bulk.calls[k]) <= C
           /\ Flatten(bulk.calls) = [k \in 1..N |-> k]

\* a table that ends in a shorter chunk
C23_Witness ==
    /\ bulk.pc = "done"
    /\ Len(bulk.calls) >= 3
    /\ Len(bulk.calls[Len(bulk.calls)]) < bulk.chunk_size
    /\ Len(bulk.calls[1]) = bulk.chunk_size

\* a is b with some elements left out, the order kept
RECURSIVE IsSubSeq(_, _)
IsSubSeq(a, b) ==
    IF a = <<>> THEN TRUE
    ELSE IF b = <<>> THEN FALSE
    ELSE IF Head(a) = Head(b) THEN IsSubSeq(Tail(a), Tail(b))
    ELSE IsSubSeq(a, Tail(b))

\* the stored rows of the requested channel inside the requested window,
\* ascending, as many as the request's method fetches
ReqFetchedRows ==
    LimitRows(ReqWindowRows,
              IF req.method = "clickhouse" THEN req.points * 2
              ELSE IF req.endpoint = "window" THEN DefaultLimit ELSE req.limit)

\* the returned pairs, the positions moved forward by off
RespPairs(off) ==
    [k \in 1..Len(resp.x) |-> [time |-> resp.x[k] + off, value |-> resp.y[k]]]

WindowOk ==
    /\ req.endpoint \in {"window", "get_window_filtered"}
    /\ resp.status = 200

C25_PagingTerminates ==
    (pg.pc = "paging") ~> (pg.pc \in {"done", "error"})

\* on an index-addressed channel the same loop does terminate when the page
\* size is at least 2
PagingEndsOnIndexChannel ==
    (pg.pc = "paging" /\ ~ChannelOf(pg.channel_id).has_time) ~>
        (pg.pc \in {"done", "error"})

\* a delete request arrives in this step
DeleteArrives == dreq.pc # "deleting" /\ dreq' # dreq

\* ---- C26: a delete request by a caller who is not the dataset's owner ends
\* with Forbidden (403), one for a dataset that does not exist ends with
\* NotFound (404); in both cases no SensorPoint, Channel or Dataset row is
\* removed or changed.
C26_RefusedDeleteChangesNothing ==
    [][DeleteArrives =>
          /\ ~DatasetExists(dreq'.dataset_id) =>
                /\ dreq'.status = 404 /\ dreq'.pc = "failed"
                /\ UNCHANGED <<datasets, channels, sensor_data>>
          /\ (/\ DatasetExists(dreq'.dataset_id)
              /\ DatasetOf(dreq'.dataset_id).user_id # dreq'.user_id) =>
                /\ dreq'.status = 403 /\ dreq'.pc = "failed"
                /\ UNCHANGED <<datasets, channels, sensor_data>>
          /\ dreq'.status \in {403, 404} =>
                UNCHANGED <<datasets, channels, sensor_data>>]_vars

\* a refused request leaves the delete in no state from which it removes rows
C26_Witness ==
    /\ dreq.status = 403 /\ dreq.pc = "failed"
    /\ DatasetExists(dreq.dataset_id)
    /\ DatasetOf(dreq.dataset_id).user_id # dreq.user_id
    /\ Cardinality(SensorRowsOf(dreq.dataset_id)) >= MaxRows

\* ---- C27: after a cleanup that deletes (not a dry run) has completed on a
\* store nothing else is writing, the store holds no SensorPoint whose channel
\* is missing, no Channel without SensorPoints and no Channel whose dataset is
\* missing, whatever orphaned rows existed before.
C27_CleanupLeavesNoOrphans ==
    (cleanup.pc = "done" /\ ~cleanup.dry_run) =>
        /\ \A r \in sensor_data : ChannelExists(r.channel_id)
        /\ \A c \in channels : \E r \in sensor_data : r.channel_id = c.channel_id
        /\ \A c \in channels : DatasetExists(c.dataset_id)

\* ---- C28: when the deletion of a dataset is interleaved, storage call by
\* storage call, with the ingestion still writing that dataset, then once both
\* have finished the store holds no Channel row whose Dataset row is missing
\* and no SensorPoint whose Channel row is missing.
C28_RacedDeleteLeavesNoOrphans ==
    \A d \in raced :
        (/\ ing.pc = "done" /\ ing.dataset_id = d
         /\ dreq.pc = "done" /\ dreq.dataset_id = d) =>
            /\ \A c \in ChannelsOf(d) : DatasetExists(c.dataset_id)
            /\ \A r \in SensorRowsOf(d) : ChannelExists(r.channel_id)

\* ---- C29: listing the channels of a dataset that does not exist or has no
\* channels ends with the not-found outcome (404, 'Dataset not found or has
\* no channels'), not with a generic database-error outcome.
C29_ListChannelsNotFound ==
    (meta.endpoint = "list_channels" /\ meta.body = <<>>) =>
        /\ meta.status = 404
        /\ meta.detail = "Dataset not found or has no channels"

\* ---- C30: no request made with identity B returns information derived from
\* a dataset owned by another caller A: dataset listing, dataset metadata,
\* channel listing and channel time range answer 200 only with objects of
\* datasets the caller owns (the window endpoints are C3).
OwnerOfDataset(d) == IF DatasetExists(d) THEN DatasetOf(d).user_id ELSE NoValue

MetaBodyOwners ==
    IF meta.endpoint \in {"list_datasets", "get_dataset_meta"}
    THEN {meta.body[k].user_id : k \in 1..Len(meta.body)}
    ELSE IF meta.endpoint = "list_channels"
    THEN {OwnerOfDataset(meta.body[k].dataset_id) : k \in 1..Len(meta.body)}
    ELSE IF meta.endpoint = "get_channel_time_range"
    THEN {OwnerOfDataset(ChannelOf(meta.body[k].channel_id).dataset_id) :
             k \in 1..Len(meta.body)}
    ELSE {}

C30_ResponsesHoldOnlyOwnData ==
    (meta.caller \in Users /\ meta.status = 200) => MetaBodyOwners \subseteq {meta.caller}

====
